---- MODULE Spec2Model ----
(***************************************************************************)
(* HYDRONAV: hazard-aware routing and live reroute engine.                 *)
(*                                                                         *)
(* Several specifications share this module, each over its own variables.  *)
(*   SpecFetch     one call of fetchRoute (services/mapService.ts): the    *)
(*                 direct fetch, the fan-out of the 8 detour candidates,   *)
(*                 the join and the score-then-distance selection.         *)
(*   Spec          the navigation session of App.tsx: React state, the two *)
(*                 effects that call calculateRoute, the simulation ticker *)
(*                 and the route evaluations in flight.                    *)
(*   SpecProvider  one call of fetchOSRMRoute.                             *)
(*   SpecBoundary  validation of coordinates and drawn hazards.            *)
(*   SpecTrail     the path trail under GPS fixes and simulation ticks.    *)
(*   SpecSmoother  the LocationSmoother across navigation sessions.        *)
(*   SpecGeometry  calculateRouteHazardScore and doesRouteIntersectFlood.  *)
(*   SpecDetour    generateDetourWaypoints.                                *)
(*   SpecTrip      the trip duration reported on arrival.                  *)
(*   SpecHeading   the heading shown while navigating in real mode.        *)
(*   SpecOverlap   calculateRoute evaluations that overlap.                *)
(*   SpecPlayback  the simulated playback along its route.                 *)
(*   SpecSpawner   the interval of the live hazard spawner.                *)
(*                                                                         *)
(* Coordinates are integers in units of 0.001 degree, so the 0.001 degree  *)
(* margin of doesRouteIntersectFlood is 1.                                 *)
(***************************************************************************)
EXTENDS Integers, Sequences, FiniteSets, TLC

\* ------------------------------------------------------------------ bounds

\* The provider answers only the first MaxRouted detour candidates with a route;
\* the fetches of the others fail.
MaxRouted == 3

\* ---------------------------------------------------------------- geometry

Coord(la, ln) == [lat |-> la, lng |-> ln]

SetMin(S) == CHOOSE x \in S : \A y \in S : x <= y

SetMax(S) == CHOOSE x \in S : \A y \in S : x >= y

Lats(path) == {path[i].lat : i \in DOMAIN path}

Lngs(path) == {path[i].lng : i \in DOMAIN path}

\* Even-odd ray casting.  Edge i joins vs[i] and its predecessor vs[j] (the last
\* vertex for the first).  The source's test
\*     x < (xj - xi) * (y - yi) / (yj - yi) + xi
\* is evaluated only when (yi > y) # (yj > y), hence yj # yi; on integers it is
\* the cross-multiplied comparison below, with the sense turned for yj < yi.
EdgeCrossed(point, vs, i) ==
    LET j  == IF i = 1 THEN Len(vs) ELSE i - 1
        x  == point.lng
        y  == point.lat
        xi == vs[i].lng
        yi == vs[i].lat
        xj == vs[j].lng
        yj == vs[j].lat
    IN  /\ (yi > y) # (yj > y)
        /\ IF yj - yi > 0
              THEN (x - xi) * (yj - yi) < (xj - xi) * (y - yi)
              ELSE (x - xi) * (yj - yi) > (xj - xi) * (y - yi)

isPointInPolygon(point, vs) ==
    Cardinality({i \in DOMAIN vs : EdgeCrossed(point, vs, i)}) % 2 = 1

\* The margin applied around the zone's bounding box, 0.001 degree.
Margin == 1

\* The broad phase shared by doesRouteIntersectFlood and calculateRouteHazardScore:
\* the route's bounding box against the zone's.  Math.max of no number is
\* -Infinity and Math.min of none is Infinity, so the test is true when the
\* route or the polygon is empty.
BBoxDisjoint(routePath, polygon) ==
    \/ routePath = << >>
    \/ polygon = << >>
    \/ SetMax(Lats(routePath)) < SetMin(Lats(polygon))
    \/ SetMin(Lats(routePath)) > SetMax(Lats(polygon))
    \/ SetMax(Lngs(routePath)) < SetMin(Lngs(polygon))
    \/ SetMin(Lngs(routePath)) > SetMax(Lngs(polygon))

doesRouteIntersectFloodInsideMargin(routePath, floodZone) ==
    LET poly   == floodZone.polygon
        minLat == SetMin(Lats(poly))
        maxLat == SetMax(Lats(poly))
        minLng == SetMin(Lngs(poly))
        maxLng == SetMax(Lngs(poly))
    IN  /\ ~BBoxDisjoint(routePath, poly)
        /\ \E i \in DOMAIN routePath :
              LET p == routePath[i]
              IN  /\ p.lat >= minLat + 2 * Margin
                  /\ p.lat <= maxLat - 2 * Margin
                  /\ p.lng >= minLng + 2 * Margin
                  /\ p.lng <= maxLng - 2 * Margin
                  /\ isPointInPolygon(p, poly)

doesRouteIntersectFlood(routePath, floodZone) ==
    LET poly   == floodZone.polygon
        minLat == SetMin(Lats(poly))
        maxLat == SetMax(Lats(poly))
        minLng == SetMin(Lngs(poly))
        maxLng == SetMax(Lngs(poly))
    IN  /\ ~BBoxDisjoint(routePath, poly)
        /\ \E i \in DOMAIN routePath :
              LET p == routePath[i]
              IN  /\ p.lat >= minLat - Margin
                  /\ p.lat <= maxLat + Margin
                  /\ p.lng >= minLng - Margin
                  /\ p.lng <= maxLng + Margin
                  /\ isPointInPolygon(p, poly)

calculateRouteHazardScorePerZone(routePath, floodZones) ==
    LET relevantZones == {k \in DOMAIN floodZones :
                             ~BBoxDisjoint(routePath, floodZones[k].polygon)}
    IN  Cardinality({pair \in (DOMAIN routePath) \X relevantZones :
            isPointInPolygon(routePath[pair[1]], floodZones[pair[2]].polygon)})

calculateRouteHazardScore(routePath, floodZones) ==
    LET relevantZones == {k \in DOMAIN floodZones :
                             ~BBoxDisjoint(routePath, floodZones[k].polygon)}
    IN  Cardinality({i \in DOMAIN routePath :
            \E k \in relevantZones :
                isPointInPolygon(routePath[i], floodZones[k].polygon)})

\* ------------------------------------------------------------ the model world

\* The hazard zones of the model: Zone(1) lies across the straight line from
\* Start to Dest, Zone(n) 4 units further north for each further n.
Zone(n) ==
    LET c == 4 * (n - 1)
    IN  [id      |-> n,
         polygon |-> << Coord(c + 1, 3), Coord(c + 1, 7),
                        Coord(c - 1, 7), Coord(c - 1, 3) >>]

Start == Coord(0, 0)

Dest == Coord(0, 8)

PathDirect == << Coord(0, 0), Coord(0, 2), Coord(0, 4), Coord(0, 6), Coord(0, 8) >>

PathGraze == << Coord(0, 0), Coord(2, 2), Coord(0, 4), Coord(2, 6), Coord(0, 8) >>

PathNorth == << Coord(0, 0), Coord(4, 2), Coord(4, 4), Coord(4, 6), Coord(0, 8) >>

PathSouth == << Coord(0, 0), Coord(0 - 4, 2), Coord(0 - 4, 4), Coord(0 - 4, 6), Coord(0, 8) >>

\* RouteData | null.  null is the record NullRoute; a route has ok = TRUE.
Route(path, dist) == [ok |-> TRUE, coordinates |-> path, totalDistance |-> dist]

NullRoute == [ok |-> FALSE, coordinates |-> << >>, totalDistance |-> 0]

\* The routes the provider may answer with.
RouteCatalog ==
    { Route(PathDirect, 2000), Route(PathGraze, 2100),
      Route(PathNorth, 2600),  Route(PathSouth, 2600) }

\* What one provider call (fetchOSRMRoute, then transformRouteData) can come to:
\*   "failed"     both endpoints failed, fetchOSRMRoute returns null;
\*   "noroutes"   a body without routes, transformRouteData returns null;
\*   "malformed"  a body whose first route lacks legs or geometry:
\*                transformRouteData throws a TypeError;
\*   "route"      a well-formed body, transformed to a RouteData.
Responses ==
    { [kind |-> k, route |-> NullRoute] : k \in {"failed", "noroutes", "malformed"} }
    \cup { [kind |-> "route", route |-> r] : r \in RouteCatalog }

\* transformRouteData on the body of a response that did not make it throw.
transformRouteData(resp) ==
    IF resp.kind = "route" THEN resp.route ELSE NullRoute

TransformThrows(resp) == resp.kind = "malformed"

\* -------------------------------------------------- services/mapService.ts

\* Math.sqrt, rounded down to the model's unit.
Sqrt(n) == CHOOSE r \in 0..n : r * r <= n /\ (r + 1) * (r + 1) > n

\* Metres per degree, and the unit of the model's coordinates per degree.
MetresPerDegree == 111111

UnitsPerDegree == 1000

\* getCombinedHazardZone: null for no zone, else the rectangle TL, TR, BR, BL
\* around all polygons of zones, with its centre and a radius in metres of half
\* its diagonal, 500 at least.
getCombinedHazardZone(zones) ==
    IF zones = << >>
       THEN [isNull |-> TRUE, center |-> Coord(0, 0), radius |-> 0, polygon |-> << >>]
       ELSE LET lats == UNION {Lats(zones[k].polygon) : k \in DOMAIN zones}
                lngs == UNION {Lngs(zones[k].polygon) : k \in DOMAIN zones}
                latDiff == SetMax(lats) - SetMin(lats)
                lngDiff == SetMax(lngs) - SetMin(lngs)
                radiusMeters == (Sqrt(latDiff * latDiff + lngDiff * lngDiff) * MetresPerDegree)
                                    \div (2 * UnitsPerDegree)
            IN  [isNull  |-> FALSE,
                 center  |-> Coord((SetMin(lats) + SetMax(lats)) \div 2,
                                   (SetMin(lngs) + SetMax(lngs)) \div 2),
                 radius  |-> IF radiusMeters > 500 THEN radiusMeters ELSE 500,
                 polygon |-> << Coord(SetMax(lats), SetMin(lngs)),
                                Coord(SetMax(lats), SetMax(lngs)),
                                Coord(SetMin(lats), SetMax(lngs)),
                                Coord(SetMin(lats), SetMin(lngs)) >>]

\* Array.prototype.filter, keeping the order.
RECURSIVE FilterIntersecting(_, _)
FilterIntersecting(routePath, zones) ==
    IF zones = << >> THEN << >>
    ELSE IF doesRouteIntersectFlood(routePath, Head(zones))
            THEN << Head(zones) >> \o FilterIntersecting(routePath, Tail(zones))
            ELSE FilterIntersecting(routePath, Tail(zones))

\* calculateOffsetPoint: the centre moved across the line from start to end
\* by multiplier times the radius; twiceMultiplier is 3 for 1.5 and 6 for 3.0.
\* Quotients are rounded down to the model's unit.
calculateOffsetPoint(start, end, center, twiceMultiplier, radiusMeters) ==
    LET dx  == end.lng - start.lng
        dy  == end.lat - start.lat
        len == Sqrt(dx * dx + dy * dy)
        twiceOffset == (radiusMeters * UnitsPerDegree * twiceMultiplier) \div MetresPerDegree
    IN  IF len = 0 THEN center
        ELSE Coord(center.lat + (dx * twiceOffset) \div (2 * len),
                   center.lng + ((0 - dy) * twiceOffset) \div (2 * len))

\* getExpandedBoundingBoxCorners for the expansion factor 1.3: each margin is
\* (span * 0.3) / 2.
getExpandedBoundingBoxCorners(zone) ==
    LET minLat == SetMin(Lats(zone.polygon))
        maxLat == SetMax(Lats(zone.polygon))
        minLng == SetMin(Lngs(zone.polygon))
        maxLng == SetMax(Lngs(zone.polygon))
        latMargin == ((maxLat - minLat) * 3) \div 20
        lngMargin == ((maxLng - minLng) * 3) \div 20
    IN  << Coord(maxLat + latMargin, minLng - lngMargin),
           Coord(maxLat + latMargin, maxLng + lngMargin),
           Coord(minLat - latMargin, maxLng + lngMargin),
           Coord(minLat - latMargin, minLng - lngMargin) >>

\* generateDetourWaypoints: the 8 candidates, in the order they are pushed.
generateDetourWaypointsCornersFirst(start, end, hazard) ==
    LET corners == getExpandedBoundingBoxCorners(hazard)
        offset(m) == calculateOffsetPoint(start, end, hazard.center, m, hazard.radius)
    IN  << [type |-> "Corner Top-Left", waypoint |-> corners[1]],
           [type |-> "Corner Top-Right", waypoint |-> corners[2]],
           [type |-> "Corner Bottom-Right", waypoint |-> corners[3]],
           [type |-> "Corner Bottom-Left", waypoint |-> corners[4]],
           [type |-> "Perpendicular Left (Tight)", waypoint |-> offset(3)],
           [type |-> "Perpendicular Right (Tight)", waypoint |-> offset(0 - 3)],
           [type |-> "Perpendicular Left (Wide)", waypoint |-> offset(6)],
           [type |-> "Perpendicular Right (Wide)", waypoint |-> offset(0 - 6)] >>

generateDetourWaypoints(start, end, hazard) ==
    LET corners == getExpandedBoundingBoxCorners(hazard)
        offset(m) == calculateOffsetPoint(start, end, hazard.center, m, hazard.radius)
    IN  << [type |-> "Perpendicular Left (Tight)", waypoint |-> offset(3)],
           [type |-> "Perpendicular Right (Tight)", waypoint |-> offset(0 - 3)],
           [type |-> "Perpendicular Left (Wide)", waypoint |-> offset(6)],
           [type |-> "Perpendicular Right (Wide)", waypoint |-> offset(0 - 6)],
           [type |-> "Corner Top-Left", waypoint |-> corners[1]],
           [type |-> "Corner Top-Right", waypoint |-> corners[2]],
           [type |-> "Corner Bottom-Right", waypoint |-> corners[3]],
           [type |-> "Corner Bottom-Left", waypoint |-> corners[4]] >>

\* The hazard sets fetchRoute is called with.
FetchZoneInputs == { << >>, << Zone(1) >> }

\* calculateRouteHazardScore of every route the provider may answer with, against
\* every hazard set fetchRoute is called with, computed once.
HazardScoreOfCatalog ==
    [r \in RouteCatalog |->
        [zones \in FetchZoneInputs |-> calculateRouteHazardScore(r.coordinates, zones)]]

\* A RouteEvaluation, and the filler of a slot that holds none.
Evaluation(route, zones, type) ==
    [route       |-> route,
     hazardScore |-> HazardScoreOfCatalog[route][zones],
     detourType  |-> type]

NoEvaluation == [route |-> NullRoute, hazardScore |-> 0, detourType |-> ""]

\* The comparator handed to sort: negative when a goes before b.
CompareEvaluations(a, b) ==
    IF a.hazardScore # b.hazardScore
       THEN a.hazardScore - b.hazardScore
       ELSE a.route.totalDistance - b.route.totalDistance

\* Array.prototype.sort is stable: e goes behind every element that does not
\* compare greater than it.
RECURSIVE InsertEvaluation(_, _)
InsertEvaluation(e, sorted) ==
    IF sorted = << >> THEN << e >>
    ELSE IF CompareEvaluations(Head(sorted), e) <= 0
            THEN << Head(sorted) >> \o InsertEvaluation(e, Tail(sorted))
            ELSE << e >> \o sorted

RECURSIVE SortEvaluations(_)
SortEvaluations(evals) ==
    IF evals = << >> THEN << >>
    ELSE InsertEvaluation(evals[Len(evals)], SortEvaluations(SubSeq(evals, 1, Len(evals) - 1)))

\* results.filter(r => r !== null), keeping the order of the array.
RECURSIVE ValidEvaluations(_)
ValidEvaluations(results) ==
    IF results = << >> THEN << >>
    ELSE IF Head(results).st = "ok"
            THEN << Head(results).ev >> \o ValidEvaluations(Tail(results))
            ELSE ValidEvaluations(Tail(results))

\* Lines 131-138: the detour analysis runs only for avoidHazards and a direct
\* route of positive hazard score.
NeedsDetourIgnoringAvoid(directRoute, floodZones, avoidHazards) ==
    HazardScoreOfCatalog[directRoute][floodZones] # 0

NeedsDetour(directRoute, floodZones, avoidHazards) ==
    /\ avoidHazards
    /\ HazardScoreOfCatalog[directRoute][floodZones] # 0

\* Promise.all fulfils once every promise handed to it has fulfilled.
SomeSettled(results) == \E i \in DOMAIN results : results[i].st # "pending"

AllSettled(results) == \A i \in DOMAIN results : results[i].st \in {"null", "ok"}

\* Promise.all keeps the value of promise i at index i, whenever it settles.
StoreInCompletionOrder(results, i, slot) ==
    LET first == SetMin({k \in DOMAIN results : results[k].st = "pending"})
    IN  [results EXCEPT ![first] = slot]

StoreResult(results, i, slot) == [results EXCEPT ![i] = slot]

\* Lines 164-174: what fetchRoute returns once the join has fulfilled.
SelectRoute(results, directRoute) ==
    LET validEvaluations == ValidEvaluations(results)
    IN  IF Len(validEvaluations) > 0
           THEN SortEvaluations(validEvaluations)[1].route
           ELSE directRoute

VARIABLES
    fArgs,      \* fetchRoute's arguments: floodZones, avoidHazards (start, end are Start, Dest)
    fPc,        \* "direct": awaiting the direct fetch; "fan": awaiting Promise.all; "done"
    fDirect,    \* directRoute
    fResults,   \* the array Promise.all collects, by candidate index
    fRet,       \* the value fetchRoute resolved with
    fHow        \* the return statement taken

fvars == << fArgs, fPc, fDirect, fResults, fRet, fHow >>

\* The React state and refs of App (App.tsx lines 58-116), and what is pending
\* in the event loop on its behalf.
VARIABLES
    userLocation,       \* useState<Coordinate>
    destination,        \* useState<Coordinate | null>: << >> for null, << c >> for c
    route,              \* useState<RouteData | null>
    isBlocked,          \* useState(false)
    isCalculating,      \* useState(false)
    floodZones,         \* useState<FloodZone[]>
    navStatus,          \* useState<NavigationStatus>: isNavigating, rerouting, alert
    isSimulating,       \* useState(false)
    isLiveMonitoring,   \* useState(false)
    showSummary,        \* useState(false)
    simulationInterval, \* the ticker of startSimulation and what its callback closed over
    simulationIndex,    \* useRef(0)
    inFlight,           \* the calculateRoute calls awaiting their route, oldest first
    alertTimers,        \* pending setTimeout callbacks that set alert to null
    lastStep            \* what the last step did: the calculateRoute calls it made,
                        \* the alert rendered for a route it settled with

avars == << userLocation, destination, route, isBlocked, isCalculating, floodZones,
            navStatus, isSimulating, isLiveMonitoring, showSummary,
            simulationInterval, simulationIndex, inFlight, alertTimers, lastStep >>

\* One call of fetchOSRMRoute (mapService.ts lines 14-56).
VARIABLES
    pArgs,      \* its argument: the coordinates
    pPc,        \* "entry", "primary": awaiting the primary endpoint, "backup", "done"
    pRequests,  \* the requests issued, in order: endpoint, coordinates sent, outcome
    pRet        \* the value the call resolved with

pvars == << pArgs, pPc, pRequests, pRet >>

\* The input boundaries of the App component, in real mode and outside
\* navigation, with coordinates as JavaScript numbers.
VARIABLES
    bUserLocation,      \* userLocation
    bSmoother,          \* locationSmoother.current: lastLat and lastLng, or unset
    bPathTrail,         \* pathTrail
    bDestination,       \* destination: << >> is null
    bActiveTool,        \* activeTool
    bTempHazardPoints,  \* tempHazardPoints
    bFloodZones,        \* floodZones, each zone as its polygon
    bGeometryArgs       \* the coordinates the last step passed to a geometry
                        \* function or to fetchRoute

bvars == << bUserLocation, bSmoother, bPathTrail, bDestination, bActiveTool,
            bTempHazardPoints, bFloodZones, bGeometryArgs >>

\* The breadcrumb trail, with positions in metres along a line.
VARIABLES
    tTrail,             \* pathTrail
    tLocation,          \* the position of the last fix or tick
    tSimulating,        \* isSimulating
    tSteps              \* fixes and ticks so far

tvars == << tTrail, tLocation, tSimulating, tSteps >>

\* The position smoother across navigation sessions in real mode.
VARIABLES
    mSmoother,          \* locationSmoother.current: lastLat and lastLng, or unset
    mRaw,               \* the last fix handed to smooth
    mOut,               \* what smooth returned for it
    mCalls,             \* calls of smooth so far
    mNavigating,        \* navStatus.isNavigating
    mSessions,          \* navigation sessions started so far
    mFirstFix           \* no fix has been processed since the session started

mvars == << mSmoother, mRaw, mOut, mCalls, mNavigating, mSessions, mFirstFix >>

\* One application of the geometry functions of utils/geo.ts.
VARIABLES
    gRoute,             \* routePath
    gZones,             \* floodZones
    gResult             \* what calculateRouteHazardScore returned for them, and
                        \* doesRouteIntersectFlood for each zone

gvars == << gRoute, gZones, gResult >>

\* One call of generateDetourWaypoints.
VARIABLES
    dArgs,              \* start, end and hazard
    dCandidates         \* the array returned, << >> before the call

dvars == << dArgs, dCandidates >>

\* The trip clock of the navigation session, in minutes.
VARIABLES
    sClock,             \* Date.now()
    sStartTime,         \* startTime: 0 is null
    sNavigating,        \* navStatus.isNavigating
    sSimulating,        \* isSimulating
    sTickerStartTime,   \* startTime as the closure of the interval callback holds it
    sSessionStart,      \* the time at which the session was started
    sDuration           \* the minutes formatDuration was last called with

svars == << sClock, sStartTime, sNavigating, sSimulating, sTickerStartTime,
            sSessionStart, sDuration >>

\* The heading shown while navigating in real mode, in whole degrees.
VARIABLES
    hHeading,           \* navStatus.heading
    hPrevious,          \* previousLocationRef.current
    hNavigating,        \* navStatus.isNavigating
    hFixes              \* fixes handled so far

hvars == << hHeading, hPrevious, hNavigating, hFixes >>

\* Overlapping evaluations of calculateRoute outside navigation.
VARIABLES
    oState,             \* the React state, as the record of Cur
    oNumbers,           \* for each call in flight, its rank among the calls started
    oStarted,           \* calls started so far
    oLatest             \* what the call started last has settled with, if it has

ovars == << oState, oNumbers, oStarted, oLatest >>

\* The simulated playback along the route it was started on.
VARIABLES
    kRoute,             \* route
    kTicker,            \* simulationInterval.current and the route its callback closed over
    kIndex,             \* simulationIndex.current
    kLocation,          \* userLocation
    kNavigating,        \* navStatus.isNavigating
    kSummary,           \* showSummary
    kPending            \* calculateRoute calls awaiting their route

kvars == << kRoute, kTicker, kIndex, kLocation, kNavigating, kSummary, kPending >>

\* The interval of the hazard spawner, with time in ticks of 200 ms.
VARIABLES
    wMonitoring,        \* isLiveMonitoring
    wElapsed,           \* ticks since liveMonitorInterval.current was set
    wFired,             \* the interval callback has run since monitoring was enabled
    wSpawned,           \* zones the callback has added
    wPlayback           \* ticks the simulated playback has yet to make; 0 outside playback

wvars == << wMonitoring, wElapsed, wFired, wSpawned, wPlayback >>

xvars == << tvars, mvars, gvars, dvars, svars, hvars, ovars, kvars, wvars >>

\* What a step on one part of the program leaves alone.
exceptTrail == << fvars, avars, pvars, bvars, mvars, gvars, dvars, svars, hvars, ovars, kvars, wvars >>

exceptSmoother == << fvars, avars, pvars, bvars, tvars, gvars, dvars, svars, hvars, ovars, kvars, wvars >>

exceptGeometry == << fvars, avars, pvars, bvars, tvars, mvars, dvars, svars, hvars, ovars, kvars, wvars >>

exceptDetour == << fvars, avars, pvars, bvars, tvars, mvars, gvars, svars, hvars, ovars, kvars, wvars >>

exceptTrip == << fvars, avars, pvars, bvars, tvars, mvars, gvars, dvars, hvars, ovars, kvars, wvars >>

exceptHeading == << fvars, avars, pvars, bvars, tvars, mvars, gvars, dvars, svars, ovars, kvars, wvars >>

exceptOverlap == << fvars, avars, pvars, bvars, tvars, mvars, gvars, dvars, svars, hvars, kvars, wvars >>

exceptPlayback == << fvars, avars, pvars, bvars, tvars, mvars, gvars, dvars, svars, hvars, ovars, wvars >>

exceptSpawner == << fvars, avars, pvars, bvars, tvars, mvars, gvars, dvars, svars, hvars, ovars, kvars >>

vars == << fvars, avars, pvars, bvars, xvars >>

\* Guntur, the base location, is the origin of the model's coordinates.
DEFAULT_LOCATION == Start

\* simulationInterval.current is null.  leaked counts the intervals that run
\* although the ref no longer holds them.
NoTicker ==
    [active |-> FALSE, route |-> NullRoute, destination |-> << >>,
     floodZones |-> << >>, rerouting |-> FALSE, leaked |-> 0]

\* Lines 412-415 of stopSimulation: the interval the ref holds is cleared.
clearIntervalSkipped(ticker) == ticker

clearInterval(ticker) == [NoTicker EXCEPT !.leaked = ticker.leaked]

NoStep == [started |-> 0, settledAlert |-> "none", afterBlockedReroute |-> FALSE]

\* The state after the first render of App.
AppInitial ==
    /\ userLocation = DEFAULT_LOCATION
    /\ destination = << >>
    /\ route = NullRoute
    /\ isBlocked = FALSE
    /\ isCalculating = FALSE
    /\ floodZones = << >>
    /\ navStatus = [isNavigating |-> FALSE, rerouting |-> FALSE, alert |-> "null"]
    /\ isSimulating = FALSE
    /\ isLiveMonitoring = FALSE
    /\ showSummary = FALSE
    /\ simulationInterval = NoTicker
    /\ simulationIndex = 0
    /\ inFlight = << >>
    /\ alertTimers = 0
    /\ lastStep = NoStep

\* No fetchRoute call is followed step by step.
FetchIdle ==
    /\ fArgs = [floodZones |-> << >>, avoidHazards |-> FALSE]
    /\ fPc = "idle"
    /\ fDirect = NullRoute
    /\ fResults = << >>
    /\ fRet = NullRoute
    /\ fHow = "idle"

\* A JavaScript number: a finite value, NaN or an infinity.
Num(v) == [kind |-> "num", val |-> v]

NaN == [kind |-> "NaN", val |-> 0]

Infinity == [kind |-> "Infinity", val |-> 0]

NegInfinity == [kind |-> "-Infinity", val |-> 0]

isNaN(x) == x.kind = "NaN"

isFinite(x) == x.kind = "num"

\* An element of the coordinates array: a Coordinate or null.
RawCoord(lat, lng) == [isNull |-> FALSE, lat |-> lat, lng |-> lng]

NullCoord == [isNull |-> TRUE, lat |-> Num(0), lng |-> Num(0)]

\* No fetchOSRMRoute call is followed step by step.
ProviderIdle ==
    /\ pArgs = << >>
    /\ pPc = "idle"
    /\ pRequests = << >>
    /\ pRet = "none"

\* The trail is empty after mounting (line 63).
TrailInitial ==
    /\ tTrail = << >>
    /\ tLocation = 0
    /\ tSimulating = FALSE
    /\ tSteps = 0

\* The smoother is constructed once, with the component (line 64).
SmootherInitial ==
    /\ mSmoother = [isSet |-> FALSE, lastLat |-> Num(0), lastLng |-> Num(0)]
    /\ mRaw = RawCoord(Num(0), Num(0))
    /\ mOut = RawCoord(Num(0), Num(0))
    /\ mCalls = 0
    /\ mNavigating = FALSE
    /\ mSessions = 0
    /\ mFirstFix = FALSE

\* No geometry function is followed.
GeometryIdle ==
    /\ gRoute = << >>
    /\ gZones = << >>
    /\ gResult = [scored |-> FALSE, score |-> 0, tested |-> FALSE, hits |-> << >>]

\* No call of generateDetourWaypoints is followed.
DetourIdle ==
    /\ dArgs = [start |-> Start, end |-> Dest,
                hazard |-> [center |-> Coord(0, 0), radius |-> 0, polygon |-> << >>]]
    /\ dCandidates = << >>

\* No session has been started (lines 108-110).
TripInitial ==
    /\ sClock = 1
    /\ sStartTime = 0
    /\ sNavigating = FALSE
    /\ sSimulating = FALSE
    /\ sTickerStartTime = 0
    /\ sSessionStart = 0
    /\ sDuration = 0

\* The heading is 0 and the previous location the default one (lines 104, 115).
HeadingInitial ==
    /\ hHeading = 0
    /\ hPrevious = DEFAULT_LOCATION
    /\ hNavigating = FALSE
    /\ hFixes = 0

\* The state after the first render, as a record.
InitialState ==
    [userLocation  |-> DEFAULT_LOCATION,
     destination   |-> << >>,
     route         |-> NullRoute,
     isBlocked     |-> FALSE,
     isCalculating |-> FALSE,
     floodZones    |-> << >>,
     navStatus     |-> [isNavigating |-> FALSE, rerouting |-> FALSE, alert |-> "null"],
     inFlight      |-> << >>,
     alertTimers   |-> 0,
     started       |-> 0,
     settled       |-> "none"]

NotSettled == [settled |-> FALSE, route |-> NullRoute, intersect |-> FALSE]

OverlapInitial ==
    /\ oState = InitialState
    /\ oNumbers = << >>
    /\ oStarted = 0
    /\ oLatest = NotSettled

\* No interval exists (line 112).
NoPlayback == [active |-> FALSE, route |-> NullRoute]

\* No route is set and no playback runs (lines 58, 72, 112, 114).
PlaybackInitial ==
    /\ kRoute = NullRoute
    /\ kTicker = NoPlayback
    /\ kIndex = 0
    /\ kLocation = DEFAULT_LOCATION
    /\ kNavigating = FALSE
    /\ kSummary = FALSE
    /\ kPending = 0

\* Monitoring is off and no interval is set (lines 89, 113).
SpawnerInitial ==
    /\ wMonitoring = FALSE
    /\ wElapsed = 0
    /\ wFired = FALSE
    /\ wSpawned = 0
    /\ wPlayback = 0

RestInitial ==
    /\ TrailInitial
    /\ SmootherInitial
    /\ GeometryIdle
    /\ DetourIdle
    /\ TripInitial
    /\ HeadingInitial
    /\ OverlapInitial
    /\ PlaybackInitial
    /\ SpawnerInitial

\* The component's state after mounting (lines 58-68, 115): no fix has been
\* smoothed, nothing is drawn and no destination is set.
BoundaryInitial ==
    /\ bUserLocation = RawCoord(Num(0), Num(0))
    /\ bSmoother = [isSet |-> FALSE, lastLat |-> Num(0), lastLng |-> Num(0)]
    /\ bPathTrail = << >>
    /\ bDestination = << >>
    /\ bActiveTool = "none"
    /\ bTempHazardPoints = << >>
    /\ bFloodZones = << >>
    /\ bGeometryArgs = {}

PendingSlot == [st |-> "pending", ev |-> NoEvaluation]

InitFetch ==
    /\ \E zones \in FetchZoneInputs, avoid \in BOOLEAN :
          fArgs = [floodZones |-> zones, avoidHazards |-> avoid]
    /\ fPc = "direct"
    /\ fDirect = NullRoute
    /\ fResults = << >>
    /\ fRet = NullRoute
    /\ fHow = "running"
    /\ AppInitial
    /\ ProviderIdle
    /\ BoundaryInitial
    /\ RestInitial

Return(result, how) ==
    /\ fPc' = "done"
    /\ fRet' = result
    /\ fHow' = how

\* Lines 126-159: the direct fetch settles; everything up to the await of
\* Promise.all runs in the same turn, so the 8 candidate fetches are all issued
\* here (candidates.map calls each async callback up to its first await).
DirectSettles(resp) ==
    /\ fPc = "direct"
    /\ IF TransformThrows(resp)
          THEN /\ Return(NullRoute, "threw")
               /\ UNCHANGED << fDirect, fResults >>
          ELSE LET directRoute == transformRouteData(resp)
                   zones == fArgs.floodZones
                   metaZone == getCombinedHazardZone(
                                   FilterIntersecting(directRoute.coordinates, zones))
                   candidates == generateDetourWaypoints(Start, Dest, metaZone)
               IN  /\ fDirect' = directRoute
                   /\ IF ~directRoute.ok
                         THEN /\ Return(NullRoute, "directNull")
                              /\ UNCHANGED fResults
                      ELSE IF ~NeedsDetour(directRoute, zones, fArgs.avoidHazards)
                         THEN /\ Return(directRoute,
                                        IF fArgs.avoidHazards THEN "safe" ELSE "noAvoid")
                              /\ UNCHANGED fResults
                      ELSE IF metaZone.isNull
                         THEN /\ Return(directRoute, "noMetaZone")
                              /\ UNCHANGED fResults
                      ELSE /\ fPc' = "fan"
                           /\ fResults' = [i \in DOMAIN candidates |-> PendingSlot]
                           /\ UNCHANGED << fRet, fHow >>
    /\ UNCHANGED << fArgs, avars, pvars, bvars, xvars >>

\* Lines 148-159 and 175-178: the fetch of candidate i settles.  A response that
\* makes transformRouteData throw rejects the candidate's promise, so Promise.all
\* rejects and the catch of fetchRoute returns null; the other fetches are not
\* cancelled but nothing reads them any more.  Promise.all stores nothing for a
\* rejected promise.
CandidateSettles(i, resp) ==
    /\ fPc = "fan"
    /\ fResults[i].st = "pending"
    /\ resp.kind = "route" => i <= MaxRouted
    /\ IF TransformThrows(resp)
          THEN /\ UNCHANGED fResults
               /\ Return(NullRoute, "threw")
          ELSE LET detourRoute == transformRouteData(resp)
                   type == generateDetourWaypoints(Start, Dest, getCombinedHazardZone(<< Zone(1) >>))[i].type
                   slot == IF detourRoute.ok
                              THEN [st |-> "ok",
                                    ev |-> Evaluation(detourRoute, fArgs.floodZones, type)]
                              ELSE [st |-> "null", ev |-> NoEvaluation]
               IN  /\ fResults' = StoreResult(fResults, i, slot)
                   /\ UNCHANGED << fPc, fRet, fHow >>
    /\ UNCHANGED << fArgs, fDirect, avars, pvars, bvars, xvars >>

\* Lines 161-174: Promise.all has fulfilled; filter, sort, select.
JoinAll ==
    /\ fPc = "fan"
    /\ AllSettled(fResults)
    /\ Return(SelectRoute(fResults, fDirect),
              IF ValidEvaluations(fResults) # << >> THEN "selected" ELSE "fallback")
    /\ UNCHANGED << fArgs, fDirect, fResults, avars, pvars, bvars, xvars >>

NextFetch ==
    \/ \E resp \in Responses : DirectSettles(resp)
    \/ \E i \in 1..8, resp \in Responses : CandidateSettles(i, resp)
    \/ JoinAll

SpecFetch == InitFetch /\ [][NextFetch]_vars

\* ---------------------------------------------------- fetchRoute: properties

OkSlots == {i \in DOMAIN fResults : fResults[i].st = "ok"}

DirectScore == HazardScoreOfCatalog[fDirect][fArgs.floodZones]

ScoreOf(r) == HazardScoreOfCatalog[r][fArgs.floodZones]

\* (score, distance) of a before or equal to that of b, lexicographically.
LexLeq(a, b) ==
    \/ a.hazardScore < b.hazardScore
    \/ a.hazardScore = b.hazardScore /\ a.route.totalDistance <= b.route.totalDistance

MinimalSlots == {i \in OkSlots : \A j \in OkSlots : LexLeq(fResults[i].ev, fResults[j].ev)}

\* The place of a candidate type in the order generateDetourWaypoints pushes them.
TypeIndex(type) ==
    CHOOSE k \in 1..8 : generateDetourWaypoints(Start, Dest, getCombinedHazardZone(<< Zone(1) >>))[k].type = type

\* The detour analysis has been entered: the 8 candidate fetches were issued.
FanOutDone == fResults # << >>

\* C4: when fetchRoute has returned and at least one candidate was fetched
\* successfully, the returned route is the route of a successfully fetched
\* candidate whose (hazardScore, totalDistance) is lexicographically minimal.
C4_ReturnsMinimalCandidate ==
    (fPc = "done" /\ OkSlots # {}) =>
        \E i \in MinimalSlots : fRet = fResults[i].ev.route

\* C5: the returned route is a function of the provider's responses alone: null
\* if a response made a candidate throw, else the direct route if no candidate
\* yielded a route, else the route of the minimal candidate that comes first in
\* the candidate order (whatever the order in which the fetches completed).
C5_IndependentOfCompletionOrder ==
    fPc = "done" /\ FanOutDone =>
        IF fHow = "threw" THEN fRet = NullRoute
        ELSE IF OkSlots = {} THEN fRet = fDirect
        ELSE LET minimal == {fResults[i].ev : i \in MinimalSlots}
                 first == CHOOSE e \in minimal :
                              \A d \in minimal : TypeIndex(e.detourType) <= TypeIndex(d.detourType)
             IN  fRet = first.route

\* C5 witness: a selection among candidates that tie on score and distance with
\* different routes.
C5_Witness ==
    /\ fHow = "selected"
    /\ \E i, j \in MinimalSlots : fResults[i].ev.route # fResults[j].ev.route

\* C6: the 8 candidate fetches are issued together, before any of them settles,
\* and the ranking runs only when none of the 8 is pending any more.
C6_JoinAllBeforeRanking ==
    /\ FanOutDone => Len(fResults) = 8
    /\ fHow \in {"selected", "fallback"} =>
          \A i \in DOMAIN fResults : fResults[i].st # "pending"

\* C6 witness: a ranking over 8 settled candidates, some failed and some not.
C6_Witness ==
    /\ fHow = "selected"
    /\ \E i, j \in DOMAIN fResults : fResults[i].st = "null" /\ fResults[j].st = "ok"

\* C7: once the direct route is there, candidates that fail are only discarded:
\* fetchRoute returns a route, never null.
C7_FailuresOnlyDiscard ==
    (fPc = "done" /\ fDirect.ok) => fRet.ok

\* C8: avoidHazards, a direct route of positive score and no candidate fetched
\* successfully: fetchRoute returns the direct route, which the caller's test
\* (zones.some(doesRouteIntersectFlood)) marks blocked.
C8_FallsBackToDirect ==
    (fPc = "done" /\ fArgs.avoidHazards /\ fDirect.ok /\ DirectScore > 0 /\ OkSlots = {}) =>
        /\ fRet = fDirect
        /\ \E k \in DOMAIN fArgs.floodZones :
               doesRouteIntersectFlood(fRet.coordinates, fArgs.floodZones[k])

\* C9: avoidHazards and a direct route of positive score: a route that
\* fetchRoute returns scores strictly less than the direct route, or is the
\* direct route.
C9_NeverWorseThanDirect ==
    (fPc = "done" /\ fArgs.avoidHazards /\ fDirect.ok /\ DirectScore > 0 /\ fRet.ok) =>
        \/ ScoreOf(fRet) < DirectScore
        \/ fRet = fDirect

\* C10: candidate fetches are issued only for a direct route that was fetched,
\* avoidHazards and a positive direct score; in every other case fetchRoute
\* returns what the direct fetch gave (null if it failed).
C10_DetourOnlyWhenNeeded ==
    /\ FanOutDone => (fDirect.ok /\ fArgs.avoidHazards /\ DirectScore > 0)
    /\ (fPc = "done" /\ ~FanOutDone) => fRet = fDirect
    /\ (fPc = "done" /\ fDirect.ok /\ fArgs.avoidHazards /\ DirectScore > 0) => FanOutDone

\* C10 witness: a direct route across the hazard returned as it is because
\* avoidHazards is false.
C10_Witness ==
    /\ fHow = "noAvoid"
    /\ DirectScore > 0
    /\ fRet = fDirect

\* ------------------------------------------------------------------ App.tsx

\* Longest hazard set of a session.
MaxZones == 2

\* Most calculateRoute calls awaiting their route at one time.
MaxInFlight == 2

\* Most alert-clearing timeouts pending at one time.
MaxTimers == 1

\* The zone the live monitor spawns around baseLoc, moved by the random offset:
\* a square of 0.004 degree half-width.
LiveZone(baseLoc, offset) ==
    LET la == baseLoc.lat + offset.lat
        ln == baseLoc.lng + offset.lng
    IN  [id      |-> 0,
         polygon |-> << Coord(la + 4, ln - 4), Coord(la + 4, ln + 4),
                        Coord(la - 4, ln + 4), Coord(la - 4, ln - 4) >>]

\* The spawner draws each offset from -0.015 .. 0.015 degree.  The model draws
\* the offsets that put the centre of the zone on one of SpawnCentres, which are
\* within that range of every position of the session.
SpawnCentres == { Coord(1, 1) }

SpawnOffsets(baseLoc) ==
    { Coord(c.lat - baseLoc.lat, c.lng - baseLoc.lng) : c \in SpawnCentres }

\* The zones the user draws or picks.
ManualZones == { Zone(1) }

\* The positions the position feed reports (after smoothing).
GpsFixes == { Coord(0, 4), Dest }

\* The React state a handler reads and writes, as one record; started counts
\* the calculateRoute calls made while the step runs, settled is the alert
\* of the render that commits a route the step's evaluation settled with.
Cur ==
    [userLocation  |-> userLocation,
     destination   |-> destination,
     route         |-> route,
     isBlocked     |-> isBlocked,
     isCalculating |-> isCalculating,
     floodZones    |-> floodZones,
     navStatus     |-> navStatus,
     inFlight      |-> inFlight,
     alertTimers   |-> alertTimers,
     started       |-> 0,
     settled       |-> "none"]

\* What fetchRoute can resolve to.
RouteResults ==
    { NullRoute,
      Route(<< Start, Coord(0, 4), Dest >>, 2000),
      Route(<< Start, Coord(4, 4), Dest >>, 2600) }

\* Every position the session can be at and every zone it can hold.
Positions ==
    GpsFixes \cup { DEFAULT_LOCATION }
        \cup UNION { { r.coordinates[i] : i \in DOMAIN r.coordinates } : r \in RouteResults }

ZoneCatalog ==
    ManualZones
        \cup UNION { { LiveZone(baseLoc, offset) : offset \in SpawnOffsets(baseLoc) } :
                      baseLoc \in Positions }

\* doesRouteIntersectFlood of every route and zone of the session, tabulated.
RouteCrossesZone ==
    [r \in RouteResults \ { NullRoute } |->
        [z \in ZoneCatalog |-> doesRouteIntersectFlood(r.coordinates, z)]]

\* zones.some(z => doesRouteIntersectFlood(route.coordinates, z))
IsCompromised(r, zones) ==
    \E k \in DOMAIN zones : RouteCrossesZone[r][zones[k]]

\* calculateRoute up to its first await (lines 275-283); of its arguments the
\* call in flight keeps what the rest of calculateRoute reads; aborted records
\* that the session was aborted while the call was in flight.  Called with a null
\* destination (destination!), reading end.lat throws inside the async function:
\* the promise rejects and no state is set.
calculateRoute(s, start, end, zones, avoidHazards, isAutoReroute) ==
    IF end = << >> THEN s
    ELSE [s EXCEPT
            !.isCalculating = TRUE,
            !.navStatus = [@ EXCEPT !.rerouting = TRUE,
                                    !.alert = IF isAutoReroute THEN "REROUTING..." ELSE @],
            !.inFlight = Append(@, [zones |-> zones, avoidHazards |-> avoidHazards,
                                    aborted |-> FALSE,
                                    isAutoReroute |-> isAutoReroute]),
            !.started = @ + 1]

\* The guard of the DYNAMIC HAZARD CHECKING effect (line 172).
MonitorGuard(s) ==
    /\ s.navStatus.isNavigating
    /\ s.route.ok
    /\ Len(s.floodZones) > 0
    /\ ~s.navStatus.rerouting

\* The DYNAMIC HAZARD CHECKING effect (lines 171-181).
HazardCheckEffect(s) ==
    IF MonitorGuard(s) /\ IsCompromised(s.route, s.floodZones)
       THEN calculateRoute(s, s.userLocation, s.destination, s.floodZones, TRUE, TRUE)
       ELSE s

\* The auto-calc effect (lines 313-318); userLocation is always an object.
AutoCalcEffect(s) ==
    IF s.destination # << >>
       THEN LET shouldAvoid == Len(s.floodZones) > 0
            IN  calculateRoute(s, s.userLocation, s.destination, s.floodZones,
                               shouldAvoid, shouldAvoid)
       ELSE s

\* The effects React runs after the render that follows a step, in the order
\* of their declaration.  changed names the dependencies the step replaced:
\* objects and arrays compare by identity, so a setter called with a fresh
\* object always changes its dependency.
RunEffectsOnNavigationChange(s, changed) ==
    LET s1 == IF changed # {} THEN HazardCheckEffect(s) ELSE s
    IN  IF changed \cap {"destination", "floodZones", "isNavigating"} # {}
           THEN AutoCalcEffect(s1)
           ELSE s1

RunEffects(s, changed) ==
    LET s1 == IF changed # {} THEN HazardCheckEffect(s) ELSE s
    IN  IF changed \cap {"destination", "floodZones"} # {}
           THEN AutoCalcEffect(s1)
           ELSE s1

\* stopSimulation (lines 411-418), on the record; the interval is cleared by
\* the action.
stopSimulation(s) ==
    [s EXCEPT !.navStatus = [@ EXCEPT !.isNavigating = FALSE, !.alert = "null",
                                      !.rerouting = FALSE]]

\* completeNavigation (lines 398-409).
completeNavigation(s) ==
    [stopSimulation(s) EXCEPT
        !.navStatus = [@ EXCEPT !.isNavigating = FALSE, !.alert = "TARGET REACHED"]]

\* The end of a step: the record becomes the state, within the model's bounds.
Commit(s, zonesChanged, afterBlocked) ==
    /\ Len(s.inFlight) <= MaxInFlight
    /\ s.alertTimers <= MaxTimers
    /\ userLocation' = s.userLocation
    /\ destination' = s.destination
    /\ route' = s.route
    /\ isBlocked' = s.isBlocked
    /\ isCalculating' = s.isCalculating
    /\ floodZones' = s.floodZones
    /\ navStatus' = s.navStatus
    /\ inFlight' = s.inFlight
    /\ alertTimers' = s.alertTimers
    /\ lastStep' = [started |-> s.started,
                    settledAlert |-> s.settled,
                    afterBlockedReroute |->
                        /\ s.navStatus.isNavigating
                        /\ ~zonesChanged
                        /\ (afterBlocked \/ lastStep.afterBlockedReroute)]
    /\ UNCHANGED << fvars, pvars, bvars, xvars >>

\* The sidebar and the map take input only outside navigation, and the trip
\* summary covers them.
SidebarShown == ~navStatus.isNavigating /\ ~showSummary

\* setDestination(coords) of handleMapClick, handleSelectDestination and
\* handleDestinationSearch; the last one sets it when its geocoding request
\* resolves, whatever the session is doing by then.
SetDestination(d) ==
    /\ Commit(RunEffects([Cur EXCEPT !.destination = << d >>], {"destination"}),
              FALSE, FALSE)
    /\ UNCHANGED << isSimulating, isLiveMonitoring, showSummary,
                    simulationInterval, simulationIndex >>

\* The updater prev => [...prev, zone] of every setFloodZones call.
ReplaceZones(prev, zone) == << zone >>

AppendZone(prev, zone) == Append(prev, zone)

\* confirmHazardDrawing, handleAddFloodZone, handleSelectFloodZone:
\* setFloodZones(prev => [...prev, zone]).
AddFloodZone(zone) ==
    /\ Len(floodZones) < MaxZones
    /\ Commit(RunEffects([Cur EXCEPT !.floodZones = AppendZone(@, zone)], {"floodZones"}),
              TRUE, FALSE)
    /\ UNCHANGED << isSimulating, isLiveMonitoring, showSummary,
                    simulationInterval, simulationIndex >>

\* The live monitor toggle (line 853).
ToggleLiveMonitoring ==
    /\ SidebarShown
    /\ isLiveMonitoring' = ~isLiveMonitoring
    /\ lastStep' = [started |-> 0,
                    settledAlert |-> "none",
                    afterBlockedReroute |-> lastStep.afterBlockedReroute]
    /\ UNCHANGED << userLocation, destination, route, isBlocked, isCalculating,
                    floodZones, navStatus, isSimulating, showSummary,
                    simulationInterval, simulationIndex, inFlight, alertTimers,
                    fvars, pvars, bvars, xvars >>

\* The spawner's interval callback when Math.random() > 0.8 (lines 137-163).
LiveHazardSpawn(offset) ==
    /\ isLiveMonitoring
    /\ Len(floodZones) < MaxZones
    /\ Commit(RunEffects(
                 [Cur EXCEPT !.floodZones = AppendZone(@, LiveZone(userLocation, offset)),
                             !.navStatus = [@ EXCEPT !.alert = "NEW HAZARD DETECTED"],
                             !.alertTimers = @ + 1],
                 {"floodZones"}),
              TRUE, FALSE)
    /\ UNCHANGED << isSimulating, isLiveMonitoring, showSummary,
                    simulationInterval, simulationIndex >>

\* handleSuccess of the position watch (lines 191-255); each fix is a fresh
\* object.  A fix on the destination is within 30 m of it; every other modelled
\* point is further away.
PositionFix(newLoc) ==
    /\ ~isSimulating
    /\ LET arrived == /\ navStatus.isNavigating
                      /\ destination # << >>
                      /\ newLoc = destination[1]
           s0 == [Cur EXCEPT !.userLocation = newLoc]
       IN  /\ Commit(RunEffects(IF arrived THEN completeNavigation(s0) ELSE s0,
                                IF arrived THEN {"userLocation", "isNavigating"}
                                           ELSE {"userLocation"}),
              FALSE, FALSE)
           /\ showSummary' = (showSummary \/ arrived)
           /\ simulationInterval' = IF arrived THEN clearInterval(simulationInterval)
                                               ELSE simulationInterval
    /\ UNCHANGED << isSimulating, isLiveMonitoring, simulationIndex >>

\* The START CARD with its start buttons (lines 791, 806-812).
StartCardShown ==
    /\ SidebarShown
    /\ route.ok
    /\ ~isCalculating

\* startRealNavigation (lines 322-336).
StartRealNavigation ==
    /\ StartCardShown
    /\ ~isBlocked
    /\ Commit(RunEffects([Cur EXCEPT !.navStatus = [@ EXCEPT !.isNavigating = TRUE,
                                                             !.alert = "null"]],
                         {"isNavigating"}),
              FALSE, FALSE)
    /\ isSimulating' = FALSE
    /\ UNCHANGED << isLiveMonitoring, showSummary, simulationInterval, simulationIndex >>

\* startSimulation (lines 339-396): the interval callback keeps the route, the
\* destination, the hazard set and navStatus of the render that started it.
\* The new interval replaces the one in the ref without clearing it.
StartSimulation ==
    /\ StartCardShown
    /\ ~isBlocked
    /\ Len(route.coordinates) # 0
    /\ Commit(RunEffects([Cur EXCEPT !.navStatus = [@ EXCEPT !.isNavigating = TRUE]],
                         {"isNavigating"}),
              FALSE, FALSE)
    /\ isSimulating' = TRUE
    /\ simulationIndex' = 0
    /\ simulationInterval' = [active |-> TRUE, route |-> route,
                              destination |-> destination, floodZones |-> floodZones,
                              rerouting |-> navStatus.rerouting,
                              leaked |-> simulationInterval.leaked
                                         + (IF simulationInterval.active THEN 1 ELSE 0)]
    /\ UNCHANGED << isLiveMonitoring, showSummary >>

\* The rerouting flag the interval callback tests (line 387): the one of the
\* render that started the simulation.
TickSeesRerouting == simulationInterval.rerouting

\* The interval callback of the simulation (lines 358-395); sampled is the
\* outcome of Math.random() > 0.98.
SimulationTick(sampled) ==
    /\ simulationInterval.active
    /\ LET c == simulationInterval
           coords == c.route.coordinates
           idx == simulationIndex
           moving == idx < Len(coords) - 1
           currentPos == coords[idx + 1]
           s0 == [Cur EXCEPT !.userLocation = currentPos]
           s1 == IF sampled /\ IsCompromised(c.route, c.floodZones) /\ ~TickSeesRerouting
                    THEN calculateRoute(s0, currentPos, c.destination, c.floodZones,
                                        TRUE, TRUE)
                    ELSE s0
       IN  /\ Commit(IF moving THEN RunEffects(s1, {"userLocation"})
                               ELSE RunEffects(completeNavigation(Cur), {"isNavigating"}),
              FALSE, FALSE)
           /\ simulationIndex' = IF moving THEN idx + 1 ELSE idx
           /\ simulationInterval' = IF moving THEN simulationInterval
                                              ELSE clearInterval(simulationInterval)
           /\ isSimulating' = (isSimulating /\ moving)
           /\ showSummary' = (showSummary \/ ~moving)
    /\ UNCHANGED isLiveMonitoring

\* abortNavigation (line 537), behind the ABORT button shown while navigating.
abortNavigation ==
    /\ navStatus.isNavigating
    /\ Commit(RunEffects([stopSimulation(Cur) EXCEPT
                             !.inFlight = [i \in DOMAIN @ |-> [@[i] EXCEPT !.aborted = TRUE]],
                             !.navStatus = [@ EXCEPT !.isNavigating = FALSE,
                                                     !.alert = "null",
                                                     !.rerouting = FALSE]],
                         {"isNavigating"}),
              FALSE, FALSE)
    /\ isSimulating' = FALSE
    /\ simulationInterval' = clearInterval(simulationInterval)
    /\ UNCHANGED << isLiveMonitoring, showSummary, simulationIndex >>

\* Removal of the i-th element of a sequence.
RemoveAt(seq, i) ==
    [k \in 1..(Len(seq) - 1) |-> IF k < i THEN seq[k] ELSE seq[k + 1]]

\* The alert calculateRoute sets for a route (lines 293-308).
AlertOnSettleIgnoringAuto(call, intersect) ==
    IF intersect
       THEN IF call.avoidHazards THEN "NO SAFE PATH FOUND"
                                 ELSE "CRITICAL: HAZARD ON ROUTE"
       ELSE IF call.avoidHazards THEN "SAFE ROUTE LOCKED"
       ELSE "null"

AlertOnSettle(call, intersect) ==
    IF intersect
       THEN IF call.avoidHazards THEN "NO SAFE PATH FOUND"
                                 ELSE "CRITICAL: HAZARD ON ROUTE"
       ELSE IF call.isAutoReroute THEN "REROUTE COMPLETE"
       ELSE IF call.avoidHazards THEN "SAFE ROUTE LOCKED"
       ELSE "null"

\* The rest of calculateRoute once fetchRoute has resolved (lines 285-309);
\* the state updates made after the await are committed in one render
\* (automatic batching of React 18 and later).
Settle(s, call, routeData) ==
    LET intersect == IsCompromised(routeData, call.zones)
        s1 == [s EXCEPT !.route = routeData, !.isCalculating = FALSE,
                        !.navStatus = [@ EXCEPT !.rerouting = FALSE]]
    IN  IF ~routeData.ok THEN s1
        ELSE [s1 EXCEPT
                !.isBlocked = intersect,
                !.navStatus = [@ EXCEPT !.alert = AlertOnSettle(call, intersect)],
                !.settled = AlertOnSettle(call, intersect),
                !.alertTimers = IF ~intersect /\ call.isAutoReroute THEN @ + 1 ELSE @]

EvaluationSettles(i, routeData) ==
    /\ i \in DOMAIN inFlight
    /\ LET call == inFlight[i]
           s0 == [Cur EXCEPT !.inFlight = RemoveAt(@, i)]
           routeReplaced == routeData.ok \/ route.ok
       IN  Commit(RunEffects(Settle(s0, call, routeData),
                             IF routeReplaced THEN {"route"} ELSE {}),
              FALSE,
                  /\ call.isAutoReroute
                  /\ routeData.ok
                  /\ IsCompromised(routeData, call.zones))
    /\ UNCHANGED << isSimulating, isLiveMonitoring, showSummary,
                    simulationInterval, simulationIndex >>

\* A timeout that clears the alert (lines 161, 303).
AlertTimerFires ==
    /\ alertTimers > 0
    /\ Commit([Cur EXCEPT !.navStatus = [@ EXCEPT !.alert = "null"],
                          !.alertTimers = @ - 1],
              FALSE, FALSE)
    /\ UNCHANGED << isSimulating, isLiveMonitoring, showSummary,
                    simulationInterval, simulationIndex >>

\* ATTEMPT RE-ROUTE on the START CARD of a blocked route (lines 799-803).
AttemptReroute ==
    /\ StartCardShown
    /\ isBlocked
    /\ Commit(calculateRoute(Cur, userLocation, destination, floodZones, TRUE, TRUE),
              FALSE, FALSE)
    /\ UNCHANGED << isSimulating, isLiveMonitoring, showSummary,
                    simulationInterval, simulationIndex >>

\* The button of the trip summary (line 841).
SummaryDone ==
    /\ showSummary
    /\ Commit(RunEffects([Cur EXCEPT !.route = NullRoute, !.destination = << >>],
                         (IF route.ok THEN {"route"} ELSE {})
                            \cup (IF destination # << >> THEN {"destination"} ELSE {})),
              FALSE, FALSE)
    /\ showSummary' = FALSE
    /\ UNCHANGED << isSimulating, isLiveMonitoring, simulationInterval, simulationIndex >>

Init ==
    /\ AppInitial
    /\ FetchIdle
    /\ ProviderIdle
    /\ BoundaryInitial
    /\ RestInitial

Next ==
    \/ SetDestination(Dest)
    \/ \E zone \in ManualZones : AddFloodZone(zone)
    \/ ToggleLiveMonitoring
    \/ \E offset \in SpawnOffsets(userLocation) : LiveHazardSpawn(offset)
    \/ \E newLoc \in GpsFixes : PositionFix(newLoc)
    \/ StartRealNavigation
    \/ StartSimulation
    \/ \E sampled \in BOOLEAN : SimulationTick(sampled)
    \/ abortNavigation
    \/ \E i \in 1..MaxInFlight, routeData \in RouteResults : EvaluationSettles(i, routeData)
    \/ AlertTimerFires
    \/ AttemptReroute
    \/ SummaryDone

Spec == Init /\ [][Next]_vars

\* C1: no step taken during navigation (a hazard-set change, a position update,
\* a simulation tick, a settling) raises the number of calculateRoute
\* evaluations in flight above one.
C1_AtMostOneEvaluationInFlight ==
    [][ navStatus.isNavigating
        => (Len(inFlight') <= 1 \/ Len(inFlight') <= Len(inFlight)) ]_vars

\* C2: the live monitor starts no evaluation in the step in which an automatic
\* reroute settles with a route that still crosses a hazard zone, nor in any
\* later step of that navigation that leaves the hazard set as it is.
C2_OneReroutePerCompromise ==
    [][ ( /\ floodZones' = floodZones
          /\ lastStep.afterBlockedReroute \/ lastStep'.afterBlockedReroute )
        => lastStep'.started = 0 ]_vars

\* C3: rerouting is true whenever an evaluation is in flight.
C3_ReroutingWhileInFlight == Len(inFlight) > 0 => navStatus.rerouting

\* ------------------------------------------------ fetchOSRMRoute (provider)

\* Longest coordinate list handed to fetchOSRMRoute.
MaxCoords == 3

CoordInputs ==
    { RawCoord(Num(0), Num(0)), RawCoord(Num(0), Num(8)),
      RawCoord(NaN, Num(8)), RawCoord(Num(0), Infinity), NullCoord }

RECURSIVE CoordLists(_)
CoordLists(n) ==
    IF n = 0 THEN { << >> }
    ELSE CoordLists(n - 1)
            \cup { Append(l, c) : l \in { k \in CoordLists(n - 1) : Len(k) = n - 1 },
                                  c \in CoordInputs }

\* The predicate of the filter at lines 16-18.
ValidCoordIgnoringFinite(c) ==
    /\ ~c.isNull
    /\ ~isNaN(c.lat)
    /\ ~isNaN(c.lng)

ValidCoord(c) ==
    /\ ~c.isNull
    /\ ~isNaN(c.lat)
    /\ ~isNaN(c.lng)
    /\ isFinite(c.lat)
    /\ isFinite(c.lng)

RECURSIVE FilterValid(_)
FilterValid(coordinates) ==
    IF coordinates = << >> THEN << >>
    ELSE IF ValidCoord(Head(coordinates))
            THEN << Head(coordinates) >> \o FilterValid(Tail(coordinates))
            ELSE FilterValid(Tail(coordinates))

\* How a request ends.  performFetch throws on the abort of the 5 s timer, on a
\* network error, on a status that is not ok and when response.json() rejects;
\* otherwise it returns the parsed body, whatever it holds: the JSON value
\* null, an answer without routes, a route without legs, a route.
ThrowingOutcomes == { "timeout", "networkError", "badStatus", "unparseable" }

ParsedBodies == { "jsonNull", "noRoutes", "noLegs", "route" }

Outcomes == ThrowingOutcomes \cup ParsedBodies

performFetchThrows(outcome) == outcome \in ThrowingOutcomes

\* The value performFetch resolves with.
ParsedData(outcome) == IF outcome = "jsonNull" THEN "null" ELSE outcome

Request(endpoint, coords) ==
    [endpoint |-> endpoint, coords |-> coords, outcome |-> "pending"]

InitProvider ==
    /\ pArgs \in CoordLists(MaxCoords)
    /\ pPc = "entry"
    /\ pRequests = << >>
    /\ pRet = "none"
    /\ AppInitial
    /\ FetchIdle
    /\ BoundaryInitial
    /\ RestInitial

\* Lines 16-45: the filter, the early return, the request to the primary endpoint.
ProviderEnters ==
    /\ pPc = "entry"
    /\ LET validCoords == FilterValid(pArgs)
       IN  IF Len(validCoords) < 2
              THEN /\ pPc' = "done"
                   /\ pRet' = "null"
                   /\ UNCHANGED pRequests
              ELSE /\ pPc' = "primary"
                   /\ pRequests' = << Request("primary", validCoords) >>
                   /\ UNCHANGED pRet
    /\ UNCHANGED << pArgs, fvars, avars, bvars, xvars >>

\* Lines 43-50: the primary request ends; on a throw the backup is requested.
PrimarySettles(outcome) ==
    /\ pPc = "primary"
    /\ IF performFetchThrows(outcome)
          THEN /\ pPc' = "backup"
               /\ pRequests' = << [pRequests[1] EXCEPT !.outcome = outcome],
                                  Request("backup", pRequests[1].coords) >>
               /\ UNCHANGED pRet
          ELSE /\ pPc' = "done"
               /\ pRequests' = << [pRequests[1] EXCEPT !.outcome = outcome] >>
               /\ pRet' = ParsedData(outcome)
    /\ UNCHANGED << pArgs, fvars, avars, bvars, xvars >>

\* Lines 48-54: the backup request ends.
BackupSettles(outcome) ==
    /\ pPc = "backup"
    /\ pPc' = "done"
    /\ pRequests' = [pRequests EXCEPT ![2].outcome = outcome]
    /\ pRet' = IF performFetchThrows(outcome) THEN "null" ELSE ParsedData(outcome)
    /\ UNCHANGED << pArgs, fvars, avars, bvars, xvars >>

NextProvider ==
    \/ ProviderEnters
    \/ \E outcome \in Outcomes : PrimarySettles(outcome)
    \/ \E outcome \in Outcomes : BackupSettles(outcome)

SpecProvider == InitProvider /\ [][NextProvider]_vars

\* ---------------------------------------------- fetchOSRMRoute: properties

\* The coordinates of the input with finite, non-NaN lat and lng.
ValidCount ==
    Cardinality({ i \in DOMAIN pArgs :
                    /\ ~pArgs[i].isNull
                    /\ pArgs[i].lat.kind = "num"
                    /\ pArgs[i].lng.kind = "num" })

BackupRequested == Len(pRequests) = 2

\* A request that failed by timeout, network error, status or a body that is
\* no JSON; and one that failed by any of these or by a body that is JSON but
\* no route answer.
FailedForSure(request) == request.outcome \in ThrowingOutcomes

FailedAtMost(request) == request.outcome \in ThrowingOutcomes \cup { "jsonNull", "noLegs" }

\* C11: a provider call with at least 2 valid coordinates requests the primary
\* endpoint first and once, the backup endpoint at most once and if and only if
\* the primary request failed, and returns null if and only if both requests
\* failed, whichever bodies count as malformed.
C11_PrimaryThenBackupOnce ==
    (pPc = "done" /\ ValidCount >= 2) =>
        /\ Len(pRequests) \in 1..2
        /\ pRequests[1].endpoint = "primary"
        /\ BackupRequested => pRequests[2].endpoint = "backup"
        /\ BackupRequested => FailedAtMost(pRequests[1])
        /\ FailedForSure(pRequests[1]) => BackupRequested
        /\ pRet = "null" =>
              (BackupRequested /\ FailedAtMost(pRequests[1]) /\ FailedAtMost(pRequests[2]))
        /\ (BackupRequested /\ FailedForSure(pRequests[1]) /\ FailedForSure(pRequests[2]))
              => pRet = "null"

\* C12: a provider call with fewer than 2 valid coordinates returns null and
\* issues no request.
C12_TooFewCoordinatesNoRequest ==
    ValidCount < 2 =>
        /\ pRequests = << >>
        /\ pPc = "done" => pRet = "null"

C12_Witness ==
    /\ pPc = "done"
    /\ Len(pArgs) >= 2
    /\ ValidCount < 2
    /\ \E i \in DOMAIN pArgs : ~pArgs[i].isNull /\ pArgs[i].lng = Infinity
    /\ pRet = "null"

\* ------------------------------------------------- navigation: properties

\* C13: a step that is not the Done button of the trip summary never replaces
\* a non-null active route with null.
C13_NullResultKeepsRoute ==
    [][ (route.ok /\ ~showSummary) => route'.ok ]_vars

\* A real-mode position fix at which completeNavigation runs.
RealArrival ==
    /\ navStatus.isNavigating
    /\ ~isSimulating
    /\ ~showSummary
    /\ showSummary'

\* C14: in real mode arrival is triggered only at a fix that brings the
\* position from at or above 30 m of the destination to below 30 m.
C14_ArrivalOnCrossing ==
    [][ RealArrival => userLocation # destination[1] ]_vars

\* C15: with isNavigating false no simulation ticker is active, at most one
\* ticker exists, and isSimulating is true exactly when a ticker exists.
C15_TickerStopsWithNavigation ==
    /\ ~navStatus.isNavigating => ~simulationInterval.active
    /\ simulationInterval.leaked = 0
    /\ isSimulating <=> simulationInterval.active

\* A simulation was aborted.
C15_Witness ==
    /\ ~navStatus.isNavigating
    /\ ~showSummary
    /\ simulationIndex > 0
    /\ ~isSimulating

\* C16: every abort leaves isNavigating false, alert null and rerouting false,
\* and the destination and the hazard set as they were.
C16_AbortClearsFlagsOnly ==
    [][ abortNavigation =>
            /\ ~navStatus'.isNavigating
            /\ navStatus'.alert = "null"
            /\ ~navStatus'.rerouting
            /\ destination' = destination
            /\ floodZones' = floodZones ]_vars

\* The session was aborted while it was rerouting.
C16_Witness ==
    /\ ~navStatus.isNavigating
    /\ ~showSummary
    /\ destination # << >>
    /\ floodZones # << >>
    /\ isCalculating
    /\ ~navStatus.rerouting
    /\ navStatus.alert = "null"
    /\ Len(inFlight) = 1
    /\ inFlight[1].isAutoReroute

\* C17: while the session stays idle after an abort, the settling of an
\* evaluation that was in flight at the abort changes neither the active
\* route, the blocked flag nor the alert.
C17_AbortedEvaluationDiscarded ==
    [][ ( /\ ~navStatus.isNavigating
          /\ inFlight # << >>
          /\ \A i \in DOMAIN inFlight : inFlight[i].aborted
          /\ Len(inFlight') < Len(inFlight) )
        => ( /\ route' = route
             /\ isBlocked' = isBlocked
             /\ navStatus'.alert = navStatus.alert ) ]_vars

\* C18: every tick of the simulated playback that moves the vehicle puts it on
\* the point of the active route at the playback index.
C18_TickFollowsActiveRoute ==
    [][ (simulationInterval.active /\ simulationIndex' = simulationIndex + 1 /\ route.ok)
        => ( /\ simulationIndex + 1 \in DOMAIN route.coordinates
             /\ userLocation' = route.coordinates[simulationIndex + 1] ) ]_vars

\* C19: the render that commits the settling of an automatic reroute with a
\* route shows 'REROUTE COMPLETE', with a timer pending that sets the alert to
\* null when it fires, if the route crosses no zone of the evaluated hazard
\* set, and 'NO SAFE PATH FOUND' if it crosses one.
C19_AutoRerouteAlert ==
    [][ /\ \A i \in DOMAIN inFlight, routeData \in RouteResults :
              (EvaluationSettles(i, routeData) /\ inFlight[i].isAutoReroute /\ routeData.ok)
              => IF IsCompromised(routeData, inFlight[i].zones)
                    THEN lastStep'.settledAlert = "NO SAFE PATH FOUND"
                    ELSE /\ lastStep'.settledAlert = "REROUTE COMPLETE"
                         /\ alertTimers' = alertTimers + 1
        /\ AlertTimerFires => navStatus'.alert = "null" ]_vars

\* An automatic reroute has just settled with a clear route during navigation.
C19_Witness ==
    /\ navStatus.isNavigating
    /\ lastStep.settledAlert = "REROUTE COMPLETE"
    /\ alertTimers > 0

\* C21: every step leaves the hazard set as it was or appends one zone to it,
\* the zones already there keeping their content and their order.
C21_HazardSetAppendOnly ==
    [][ \/ floodZones' = floodZones
        \/ /\ Len(floodZones') = Len(floodZones) + 1
           /\ SubSeq(floodZones', 1, Len(floodZones)) = floodZones ]_vars

\* A session with two hazard zones has ended by arrival.
C21_Witness ==
    /\ Len(floodZones) = 2
    /\ showSummary
    /\ route.ok

\* C22: the active route changes only in a step in which a calculateRoute
\* evaluation settles.
C22_RouteChangesOnlyOnSettle ==
    [][ route' # route
            => \E i \in DOMAIN inFlight, routeData \in RouteResults :
                   EvaluationSettles(i, routeData) ]_vars

\* C33: with no evaluation in flight and a route, isBlocked is true exactly
\* when the route crosses a zone of the hazard set as it is now, so that the
\* start buttons are offered only for a route clear of every hazard.
C33_BlockedIffRouteCrossesHazard ==
    (inFlight = << >> /\ route.ok)
        => (isBlocked <=> IsCompromised(route, floodZones))

\* C34: where a route is set or the session is navigating, a destination is
\* set.
C34_DestinationSetWhileRouted ==
    (route.ok \/ navStatus.isNavigating) => destination # << >>

\* C35: the settling of an automatic reroute, whatever it settles with, does
\* not leave the alert at 'REROUTING...' with rerouting false.
C35_ReroutingAlertEndsOnSettle ==
    [][ \A i \in DOMAIN inFlight, routeData \in RouteResults :
            (EvaluationSettles(i, routeData) /\ inFlight[i].isAutoReroute)
            => ~(navStatus'.alert = "REROUTING..." /\ ~navStatus'.rerouting) ]_vars

\* C36: a timeout that clears the alert fires only over the alerts such
\* timeouts are scheduled for, 'REROUTE COMPLETE' and 'NEW HAZARD DETECTED',
\* or over no alert; it sets no other alert to null.
C36_TimerClearsOwnAlert ==
    [][ AlertTimerFires
            => navStatus.alert \in {"REROUTE COMPLETE", "NEW HAZARD DETECTED", "null"} ]_vars

\* ------------------------------------------------ input boundaries (App.tsx)

\* Entries of pathTrail the model keeps.
MaxTrail == 1

\* Hazard zones drawn on the map.
MaxDrawn == 1

\* Points a hazard polygon needs before it can be confirmed.
MinHazardPoints == 3

\* JavaScript arithmetic on numbers that may be NaN or infinite.
Neg(a) ==
    CASE a.kind = "num"       -> Num(0 - a.val)
      [] a.kind = "Infinity"  -> NegInfinity
      [] a.kind = "-Infinity" -> Infinity
      [] OTHER                -> NaN

Add(a, b) ==
    CASE isNaN(a) \/ isNaN(b)       -> NaN
      [] isFinite(a) /\ isFinite(b) -> Num(a.val + b.val)
      [] isFinite(a)                -> b
      [] isFinite(b)                -> a
      [] a = b                      -> a
      [] OTHER                      -> NaN

\* alpha * a with alpha = 0.3, rounded down to the model's unit.
TimesHalf(a) == IF isFinite(a) THEN Num(a.val \div 2) ELSE a

TimesAlpha(a) == IF isFinite(a) THEN Num((3 * a.val) \div 10) ELSE a

LowPass(last, x) == Add(last, TimesAlpha(Add(x, Neg(last))))

\* LocationSmoother.smooth: the new state of the smoother and the value returned.
smooth(state, lat, lng) ==
    IF ~state.isSet
       THEN [state |-> [isSet |-> TRUE, lastLat |-> lat, lastLng |-> lng],
             out   |-> RawCoord(lat, lng)]
       ELSE LET smoothedLat == LowPass(state.lastLat, lat)
                smoothedLng == LowPass(state.lastLng, lng)
            IN  [state |-> [isSet |-> TRUE, lastLat |-> smoothedLat, lastLng |-> smoothedLng],
                 out   |-> RawCoord(smoothedLat, smoothedLng)]

FiniteCoord(c) == isFinite(c.lat) /\ isFinite(c.lng)

\* haversineDistance(a, b) > 5: two distinct points of the model are more than
\* five metres apart, and a comparison with NaN is false.
FartherThanFive(a, b) == FiniteCoord(a) /\ FiniteCoord(b) /\ a # b

\* What the geolocation API, a map click or the geocoder may deliver.
FixInputs ==
    { RawCoord(Num(0), Num(0)), RawCoord(Num(4), Num(0)),
      RawCoord(NaN, Num(0)), RawCoord(Infinity, Num(0)) }

ClickInputs ==
    { RawCoord(Num(0), Num(0)), RawCoord(NaN, Num(0)), RawCoord(Infinity, Num(0)) }

SeqRange(q) == { q[i] : i \in DOMAIN q }

LastEntries(q, n) == IF Len(q) <= n THEN q ELSE SubSeq(q, Len(q) - n + 1, Len(q))

\* The guard of calculateRoute (line 277) and the arguments it hands to
\* fetchRoute: start, end and the polygons of the zones.
RouteArgs(start, end, zones) ==
    IF isNaN(start.lat) \/ isNaN(start.lng) \/ isNaN(end.lat) \/ isNaN(end.lng)
       THEN {}
       ELSE { start, end } \cup UNION { SeqRange(zones[i]) : i \in DOMAIN zones }

\* The effect at lines 313-318, run when destination or floodZones changed.
AutoCalcArgs(loc, dest, zones) ==
    IF dest = << >> THEN {} ELSE RouteArgs(loc, dest[1], zones)

BoundaryUnchanged == UNCHANGED << fvars, avars, pvars, xvars >>

\* handleSuccess outside simulation and navigation (lines 191-233); the fix
\* may or may not carry a heading and a speed.
handleSuccess(raw, hasHeading, hasSpeed) ==
    IF isNaN(raw.lat) \/ isNaN(raw.lng)
       THEN /\ bGeometryArgs' = {}
            /\ UNCHANGED << bUserLocation, bSmoother, bPathTrail, bDestination,
                            bActiveTool, bTempHazardPoints, bFloodZones >>
            /\ BoundaryUnchanged
       ELSE LET sm       == smooth(bSmoother, raw.lat, raw.lng)
                newLoc   == sm.out
                previous == IF bSmoother.isSet
                               THEN RawCoord(bSmoother.lastLat, bSmoother.lastLng)
                               ELSE RawCoord(Num(0), Num(0))
                grows    == \/ bPathTrail = << >>
                            \/ FartherThanFive(bPathTrail[Len(bPathTrail)], newLoc)
            IN  /\ bSmoother' = sm.state
                /\ bUserLocation' = newLoc
                /\ bPathTrail' = IF grows
                                    THEN Append(LastEntries(bPathTrail, MaxTrail - 1), newLoc)
                                    ELSE bPathTrail
                /\ bGeometryArgs' =
                       (IF hasHeading /\ hasSpeed THEN {} ELSE { previous, newLoc })
                       \cup (IF bPathTrail = << >> THEN {}
                             ELSE { bPathTrail[Len(bPathTrail)], newLoc })
                /\ UNCHANGED << bDestination, bActiveTool, bTempHazardPoints, bFloodZones >>
                /\ BoundaryUnchanged

\* A callback of handleLocateMe (lines 469-474, 479-484).
handleLocateMe(raw) ==
    /\ bUserLocation' = IF ~isNaN(raw.lat) /\ ~isNaN(raw.lng) THEN raw ELSE bUserLocation
    /\ bGeometryArgs' = {}
    /\ UNCHANGED << bSmoother, bPathTrail, bDestination, bActiveTool,
                    bTempHazardPoints, bFloodZones >>
    /\ BoundaryUnchanged

toggleTool(tool) ==
    /\ bActiveTool' = IF bActiveTool = tool THEN "none" ELSE tool
    /\ bTempHazardPoints' = << >>
    /\ bGeometryArgs' = {}
    /\ UNCHANGED << bUserLocation, bSmoother, bPathTrail, bDestination, bFloodZones >>
    /\ BoundaryUnchanged

handleMapClick(raw) ==
    /\ IF isNaN(raw.lat) \/ isNaN(raw.lng)
          THEN /\ bGeometryArgs' = {}
               /\ UNCHANGED << bDestination, bActiveTool, bTempHazardPoints >>
          ELSE IF bActiveTool = "destination"
          THEN /\ bDestination' = << raw >>
               /\ bActiveTool' = "none"
               /\ bGeometryArgs' = IF << raw >> # bDestination
                                      THEN AutoCalcArgs(bUserLocation, << raw >>, bFloodZones)
                                      ELSE {}
               /\ UNCHANGED bTempHazardPoints
          ELSE IF bActiveTool = "hazard"
          THEN /\ Len(bTempHazardPoints) < MinHazardPoints
               /\ bTempHazardPoints' = Append(bTempHazardPoints, raw)
               /\ bGeometryArgs' = {}
               /\ UNCHANGED << bDestination, bActiveTool >>
          ELSE /\ bGeometryArgs' = {}
               /\ UNCHANGED << bDestination, bActiveTool, bTempHazardPoints >>
    /\ UNCHANGED << bUserLocation, bSmoother, bPathTrail, bFloodZones >>
    /\ BoundaryUnchanged

\* handleDestinationSearch once searchLocation has resolved with coordinates
\* (lines 501-507), and handleSelectDestination (lines 514-520).
handleDestinationSearch(raw) ==
    /\ IF ~isNaN(raw.lat) /\ ~isNaN(raw.lng)
          THEN /\ bDestination' = << raw >>
               /\ bGeometryArgs' = IF << raw >> # bDestination
                                      THEN AutoCalcArgs(bUserLocation, << raw >>, bFloodZones)
                                      ELSE {}
          ELSE /\ bGeometryArgs' = {}
               /\ UNCHANGED bDestination
    /\ UNCHANGED << bUserLocation, bSmoother, bPathTrail, bActiveTool,
                    bTempHazardPoints, bFloodZones >>
    /\ BoundaryUnchanged

confirmHazardDrawing ==
    /\ Len(bTempHazardPoints) >= MinHazardPoints
    /\ Len(bFloodZones) < MaxDrawn
    /\ bFloodZones' = Append(bFloodZones, bTempHazardPoints)
    /\ bTempHazardPoints' = << >>
    /\ bActiveTool' = "none"
    /\ bGeometryArgs' = AutoCalcArgs(bUserLocation, bDestination, bFloodZones')
    /\ UNCHANGED << bUserLocation, bSmoother, bPathTrail, bDestination >>
    /\ BoundaryUnchanged

NextBoundary ==
    \/ \E raw \in FixInputs, hasHeading \in BOOLEAN, hasSpeed \in BOOLEAN :
          handleSuccess(raw, hasHeading, hasSpeed)
    \/ \E raw \in FixInputs : handleLocateMe(raw)
    \/ \E tool \in { "destination", "hazard" } : toggleTool(tool)
    \/ \E raw \in ClickInputs : handleMapClick(raw)
    \/ \E raw \in ClickInputs : handleDestinationSearch(raw)
    \/ confirmHazardDrawing

SpecBoundary == Init /\ [][NextBoundary]_vars

\* ------------------------------------------------ input boundaries: properties

NonFiniteInput(raw) == ~FiniteCoord(raw)

\* C20: a position fix, a map click or a search result whose latitude or
\* longitude is NaN or infinite changes neither userLocation, the smoother, the
\* trail, the destination nor the hazard set, and no coordinate with such a
\* component is passed to a geometry function or to fetchRoute.
C20_NonFiniteRejectedAtBoundary ==
    [][ /\ \A raw \in FixInputs \cup ClickInputs :
              ( /\ NonFiniteInput(raw)
                /\ \/ \E hasHeading \in BOOLEAN, hasSpeed \in BOOLEAN :
                         handleSuccess(raw, hasHeading, hasSpeed)
                   \/ handleMapClick(raw)
                   \/ handleDestinationSearch(raw) )
              => UNCHANGED << bUserLocation, bSmoother, bPathTrail, bDestination, bFloodZones >>
        /\ \A c \in bGeometryArgs' : FiniteCoord(c) ]_vars

\* ------------------------------------------------ breadcrumb trail (App.tsx)

\* Fixes and ticks in one run.
MaxSteps == 52

\* The entries the updaters keep of the previous trail: prev.slice(-49).
TrailKeep == 49

\* haversineDistance of two positions on the line, in metres.
DistanceOnLine(a, b) == IF a >= b THEN a - b ELSE b - a

\* The updater of setPathTrail in handleSuccess (lines 226-232).
TrailAfterFix(prev, newLoc) ==
    IF prev = << >> \/ DistanceOnLine(prev[Len(prev)], newLoc) > 5
       THEN Append(LastEntries(prev, TrailKeep), newLoc)
       ELSE prev

\* The updater of setPathTrail in the interval callback (line 371).
TrailAfterTickUncapped(prev, currentPos) == Append(prev, currentPos)

TrailAfterTick(prev, currentPos) == Append(LastEntries(prev, TrailKeep), currentPos)

\* How far the next fix or route point is from the last one: 6 m, and at a
\* few steps of a run it may also be 3 m.
Advances(n) == IF n \in { 2, 3, 51 } THEN { 3, 6 } ELSE { 6 }

\* A fix of the position watch, outside simulation (line 193).
TrailOnFix(advance) ==
    /\ ~tSimulating
    /\ tSteps < MaxSteps
    /\ tLocation' = tLocation + advance
    /\ tTrail' = TrailAfterFix(tTrail, tLocation')
    /\ tSteps' = tSteps + 1
    /\ UNCHANGED << tSimulating, exceptTrail >>

\* A tick of the simulation interval that moves on (lines 366-371).
TrailOnTick(advance) ==
    /\ tSimulating
    /\ tSteps < MaxSteps
    /\ tLocation' = tLocation + advance
    /\ tTrail' = TrailAfterTick(tTrail, tLocation')
    /\ tSteps' = tSteps + 1
    /\ UNCHANGED << tSimulating, exceptTrail >>

\* startSimulation and stopSimulation: setIsSimulating (lines 342, 416).
TrailModeSwitch ==
    /\ tSimulating' = ~tSimulating
    /\ UNCHANGED << tTrail, tLocation, tSteps, exceptTrail >>

NextTrail ==
    \/ \E advance \in Advances(tSteps) : TrailOnFix(advance)
    \/ \E advance \in Advances(tSteps) : TrailOnTick(advance)
    \/ TrailModeSwitch

SpecTrail == Init /\ [][NextTrail]_vars

\* ------------------------------------------------ breadcrumb trail: properties

\* C23: the trail never holds more than 50 points, and a point appended to a
\* trail of 50 drops the oldest one and keeps the others in their order.
C23_TrailCappedAtFifty ==
    [][ /\ Len(tTrail') <= TrailKeep + 1
        /\ (tTrail' # tTrail /\ Len(tTrail) = TrailKeep + 1)
              => /\ Len(tTrail') = TrailKeep + 1
                 /\ SubSeq(tTrail', 1, TrailKeep) = Tail(tTrail)
                 /\ tTrail'[TrailKeep + 1] = tLocation' ]_vars

\* A tick has appended a point to a full trail.
C23_Witness ==
    /\ Len(tTrail) = TrailKeep + 1
    /\ tTrail[1] > 6
    /\ tSimulating

\* C24: the trail changes only by a point that is the first one or lies at
\* least 5 m from the last point the trail held.
C24_TrailAppendsOnlyFarPoints ==
    [][ tTrail' # tTrail
            => \/ tTrail = << >>
               \/ DistanceOnLine(tTrail[Len(tTrail)], tLocation') >= 5 ]_vars

\* ------------------------------------------------ LocationSmoother (utils/geo.ts)

\* Calls of smooth in one run.
MaxSamples == 3

\* Navigation sessions in one run.
MaxSessions == 2

\* The fixes handed to smooth, in a unit fine enough for MaxSamples exact
\* blends.
SampleUnit == 10 ^ MaxSamples

SampleInputs ==
    { RawCoord(Num(0), Num(0)), RawCoord(Num(SampleUnit), Num(0)),
      RawCoord(Num(0), Num(SampleUnit)), RawCoord(Num(2 * SampleUnit), Num(SampleUnit)) }

\* handleSuccess outside simulation: the fix goes through the smoother
\* (App.tsx, line 202).
SmoothFix(raw) ==
    /\ mCalls < MaxSamples
    /\ LET sm == smooth(mSmoother, raw.lat, raw.lng)
       IN  /\ mSmoother' = sm.state
           /\ mOut' = sm.out
    /\ mRaw' = raw
    /\ mCalls' = mCalls + 1
    /\ mFirstFix' = FALSE
    /\ UNCHANGED << mNavigating, mSessions, exceptSmoother >>

\* startRealNavigation (App.tsx, lines 322-336): the smoother is not touched.
StartSession ==
    /\ ~mNavigating
    /\ mSessions < MaxSessions
    /\ mNavigating' = TRUE
    /\ mSessions' = mSessions + 1
    /\ mFirstFix' = TRUE
    /\ UNCHANGED << mSmoother, mRaw, mOut, mCalls, exceptSmoother >>

\* abortNavigation and completeNavigation (App.tsx, lines 398-418, 537).
EndSession ==
    /\ mNavigating
    /\ mNavigating' = FALSE
    /\ mFirstFix' = FALSE
    /\ UNCHANGED << mSmoother, mRaw, mOut, mCalls, mSessions,
                    exceptSmoother >>

NextSmoother ==
    \/ \E raw \in SampleInputs : SmoothFix(raw)
    \/ StartSession
    \/ EndSession

SpecSmoother == Init /\ [][NextSmoother]_vars

\* ------------------------------------------------ LocationSmoother: properties

\* C25: the first call of smooth returns its input; every later call returns,
\* on each axis, the previous output plus 0.3 times the input's distance from
\* it, so an input equal to the previous output is returned unchanged.
C25_SmoothBlendsThirtyPercent ==
    [][ mCalls' = mCalls + 1
            => IF ~mSmoother.isSet
                  THEN mOut' = mRaw'
                  ELSE /\ 10 * (mOut'.lat.val - mSmoother.lastLat.val)
                             = 3 * (mRaw'.lat.val - mSmoother.lastLat.val)
                       /\ 10 * (mOut'.lng.val - mSmoother.lastLng.val)
                             = 3 * (mRaw'.lng.val - mSmoother.lastLng.val)
                       /\ isFinite(mOut'.lat) /\ isFinite(mOut'.lng)
                       /\ mRaw' = mOut => mOut' = mOut ]_vars

\* A fix has been blended with two earlier ones, on both axes.
C25_Witness ==
    /\ mCalls = 3
    /\ mOut.lat # mRaw.lat
    /\ mOut.lng # mRaw.lng
    /\ mOut.lat.val # 0
    /\ mOut.lng.val # 0

\* C26: the first fix processed in a navigation session that follows an
\* earlier session is returned by smooth unchanged.
C26_SmootherResetPerSession ==
    [][ (mCalls' = mCalls + 1 /\ mNavigating /\ mFirstFix /\ mSessions >= 2)
            => mOut' = mRaw' ]_vars

\* ------------------------------------------------ hazard geometry (utils/geo.ts)

\* Longest route handed to the geometry functions.
MaxPoints == 2

\* Most zones handed to calculateRouteHazardScore.
MaxPolygons == 2

GeometryPoints ==
    { Coord(0, 0), Coord(1, 1), Coord(2, 2), Coord(3, 3), Coord(1, 3), Coord(3, 1), Coord(5, 5) }

\* Two overlapping squares, an L whose bounding box holds points it does not,
\* a polygon without area and one without vertices.
GeometryPolygons ==
    { << Coord(3, 1), Coord(3, 3), Coord(1, 3), Coord(1, 1) >>,
      << Coord(4, 2), Coord(4, 4), Coord(2, 4), Coord(2, 2) >>,
      << Coord(0, 0), Coord(0, 4), Coord(2, 4), Coord(2, 2), Coord(4, 2), Coord(4, 0) >>,
      << Coord(2, 2), Coord(2, 2), Coord(2, 2) >>,
      << >> }

RECURSIVE SeqsUpTo(_, _)
SeqsUpTo(S, n) ==
    IF n = 0 THEN { << >> }
    ELSE LET shorter == SeqsUpTo(S, n - 1)
         IN  shorter \cup { Append(q, x) : q \in { k \in shorter : Len(k) = n - 1 }, x \in S }

InitGeometry ==
    /\ gRoute \in SeqsUpTo(GeometryPoints, MaxPoints)
    /\ gZones \in SeqsUpTo({ [id |-> 0, polygon |-> poly] : poly \in GeometryPolygons },
                           MaxPolygons)
    /\ gResult = [scored |-> FALSE, score |-> 0, tested |-> FALSE, hits |-> << >>]
    /\ AppInitial
    /\ FetchIdle
    /\ ProviderIdle
    /\ BoundaryInitial
    /\ TrailInitial
    /\ SmootherInitial
    /\ DetourIdle
    /\ TripInitial
    /\ HeadingInitial
    /\ OverlapInitial
    /\ PlaybackInitial
    /\ SpawnerInitial

ScoreRoute ==
    /\ ~gResult.scored
    /\ gResult' = [gResult EXCEPT !.scored = TRUE,
                                  !.score = calculateRouteHazardScore(gRoute, gZones)]
    /\ UNCHANGED << gRoute, gZones, exceptGeometry >>

TestRoute ==
    /\ ~gResult.tested
    /\ gResult' = [gResult EXCEPT !.tested = TRUE,
                                  !.hits = [k \in DOMAIN gZones |->
                                               doesRouteIntersectFlood(gRoute, gZones[k])]]
    /\ UNCHANGED << gRoute, gZones, exceptGeometry >>

NextGeometry == ScoreRoute \/ TestRoute

SpecGeometry == InitGeometry /\ [][NextGeometry]_vars

\* ------------------------------------------------ hazard geometry: properties

\* The route points that isPointInPolygon accepts for the polygon.
PointsInside(routePath, polygon) ==
    { i \in DOMAIN routePath : isPointInPolygon(routePath[i], polygon) }

\* C27: the hazard score is the number of route points inside at least one of
\* the zones' polygons, each point counted once, and it is 0 exactly when no
\* route point is inside any zone.
C27_ScoreCountsPointsInDanger ==
    gResult.scored =>
        /\ gResult.score =
              Cardinality(UNION { PointsInside(gRoute, gZones[k].polygon) : k \in DOMAIN gZones })
        /\ (gResult.score = 0)
              <=> (\A k \in DOMAIN gZones : PointsInside(gRoute, gZones[k].polygon) = {})

\* A point inside two overlapping zones was scored once.
C27_Witness ==
    /\ gResult.scored
    /\ gResult.score = 1
    /\ Len(gZones) = 2
    /\ PointsInside(gRoute, gZones[1].polygon) \cap PointsInside(gRoute, gZones[2].polygon) # {}

DetourEnds == { Start, Dest, Coord(3, 4), Coord(0 - 2, 5) }

\* Hazards: the combined zone of fetchRoute, and zones with no radius, a
\* radius of 1 m and the radii of the application's own zones, around a
\* rectangle and around polygons that are a single point.
DetourHazards ==
    { [center |-> h.center, radius |-> h.radius, polygon |-> h.polygon] :
          h \in { getCombinedHazardZone(<< Zone(1) >>) } }
    \cup { [center |-> Coord(0, 5), radius |-> r, polygon |-> poly] :
              r \in { 0, 1, 500, 600 },
              poly \in { Zone(1).polygon,
                         << Coord(0, 5), Coord(0, 5), Coord(0, 5) >>,
                         << Coord(0, 5) >> } }

InitDetour ==
    /\ dArgs \in [start : DetourEnds, end : DetourEnds, hazard : DetourHazards]
    /\ dCandidates = << >>
    /\ AppInitial
    /\ FetchIdle
    /\ ProviderIdle
    /\ BoundaryInitial
    /\ TrailInitial
    /\ SmootherInitial
    /\ GeometryIdle
    /\ TripInitial
    /\ HeadingInitial
    /\ OverlapInitial
    /\ PlaybackInitial
    /\ SpawnerInitial

GenerateDetours ==
    /\ dCandidates = << >>
    /\ dCandidates' = generateDetourWaypoints(dArgs.start, dArgs.end, dArgs.hazard)
    /\ UNCHANGED << dArgs, exceptDetour >>

NextDetour == GenerateDetours

SpecDetour == InitDetour /\ [][NextDetour]_vars

\* ------------------------------------------------ generateDetourWaypoints: properties

\* C29: generateDetourWaypoints returns 8 candidates: left tight, right tight,
\* left wide, right wide, then the corners top-left, top-right, bottom-right
\* and bottom-left of the expanded bounding box, whatever start, end and hazard.
C29_EightCandidatesInOrder ==
    [][ LET c == dCandidates'
            h == dArgs.hazard
            offset(m) == calculateOffsetPoint(dArgs.start, dArgs.end, h.center, m, h.radius)
        IN  /\ Len(c) = 8
            /\ [k \in 1..8 |-> c[k].type] =
                  << "Perpendicular Left (Tight)", "Perpendicular Right (Tight)",
                     "Perpendicular Left (Wide)", "Perpendicular Right (Wide)",
                     "Corner Top-Left", "Corner Top-Right",
                     "Corner Bottom-Right", "Corner Bottom-Left" >>
            /\ << c[1].waypoint, c[2].waypoint, c[3].waypoint, c[4].waypoint >> =
                  << offset(3), offset(0 - 3), offset(6), offset(0 - 6) >>
            /\ c[5].waypoint.lat = c[6].waypoint.lat
            /\ c[7].waypoint.lat = c[8].waypoint.lat
            /\ c[5].waypoint.lng = c[8].waypoint.lng
            /\ c[6].waypoint.lng = c[7].waypoint.lng
            /\ c[5].waypoint.lat >= c[8].waypoint.lat
            /\ c[5].waypoint.lng <= c[6].waypoint.lng
            /\ \A k \in 5..8 : \E i \in DOMAIN h.polygon :
                  /\ (k \in {5, 6}) => c[k].waypoint.lat >= h.polygon[i].lat
                  /\ (k \in {7, 8}) => c[k].waypoint.lat <= h.polygon[i].lat ]_vars

\* The candidates were generated for a start equal to the end and a hazard
\* without radius whose polygon is a single point.
C29_Witness ==
    /\ Len(dCandidates) = 8
    /\ dArgs.start = dArgs.end
    /\ dArgs.hazard.radius = 0
    /\ Len(dArgs.hazard.polygon) = 1

\* ------------------------------------------------ trip duration (App.tsx)

\* The last minute of a run.
MaxClock == 6

\* A minute passes.
TimePasses ==
    /\ sClock < MaxClock
    /\ sClock' = sClock + 1
    /\ UNCHANGED << sStartTime, sNavigating, sSimulating, sTickerStartTime,
                    sSessionStart, sDuration >>
    /\ UNCHANGED exceptTrip

\* startRealNavigation (lines 322-336): setStartTime(Date.now()).
TripStartReal ==
    /\ ~sNavigating
    /\ sNavigating' = TRUE
    /\ sSimulating' = FALSE
    /\ sStartTime' = sClock
    /\ sSessionStart' = sClock
    /\ UNCHANGED << sClock, sTickerStartTime, sDuration >>
    /\ UNCHANGED exceptTrip

\* startSimulation (lines 339-396): setStartTime(Date.now()) takes effect with
\* the next render, and the interval callback is created in this one.
TripStartSimulation ==
    /\ ~sNavigating
    /\ sNavigating' = TRUE
    /\ sSimulating' = TRUE
    /\ sStartTime' = sClock
    /\ sTickerStartTime' = sStartTime
    /\ sSessionStart' = sClock
    /\ UNCHANGED << sClock, sDuration >>
    /\ UNCHANGED exceptTrip

\* durationMs of completeNavigation (line 403), in minutes: a minute where
\* startTime is null; formatDuration shows whole minutes.
TripDuration(startTime) == IF startTime # 0 THEN sClock - startTime ELSE 1

\* completeNavigation called by handleSuccess (line 246): its closure is of a
\* render after the session was started, since the position watch is set up
\* again when isNavigating changes (line 271).
TripArriveReal ==
    /\ sNavigating
    /\ ~sSimulating
    /\ sDuration' = TripDuration(sStartTime)
    /\ sNavigating' = FALSE
    /\ UNCHANGED << sClock, sStartTime, sSimulating, sTickerStartTime, sSessionStart >>
    /\ UNCHANGED exceptTrip

\* completeNavigation called by the interval callback (line 393): its closure
\* is of the render in which startSimulation ran.
TripArriveSimulated ==
    /\ sNavigating
    /\ sSimulating
    /\ sDuration' = TripDuration(sTickerStartTime)
    /\ sNavigating' = FALSE
    /\ sSimulating' = FALSE
    /\ UNCHANGED << sClock, sStartTime, sTickerStartTime, sSessionStart >>
    /\ UNCHANGED exceptTrip

\* abortNavigation (line 537).
TripAbort ==
    /\ sNavigating
    /\ sNavigating' = FALSE
    /\ sSimulating' = FALSE
    /\ UNCHANGED << sClock, sStartTime, sTickerStartTime, sSessionStart, sDuration >>
    /\ UNCHANGED exceptTrip

NextTrip ==
    \/ TimePasses
    \/ TripStartReal
    \/ TripStartSimulation
    \/ TripArriveReal
    \/ TripArriveSimulated
    \/ TripAbort

SpecTrip == Init /\ [][NextTrip]_vars

\* ------------------------------------------------ trip duration: properties

\* C30: the duration emitted on arrival is the time of arrival less the time
\* at which the session was started, in real mode and in simulated playback.
C30_DurationSinceSessionStart ==
    [][ (TripArriveReal \/ TripArriveSimulated)
            => sDuration' = sClock - sSessionStart ]_vars

\* ------------------------------------------------ heading (App.tsx)

\* Most fixes of a run.
MaxFixes == 6

\* The fixes lie on the meridian of the default location, up to this many
\* thousandths of a degree north of it.
MaxNorth == 2

\* position.coords.heading is null where the device reports none.
NullNumber == [kind |-> "null", val |-> 0]

\* The headings the device reports: none, NaN, due north, east, west.
DeviceHeadings == { NullNumber, NaN, Num(0), Num(90), Num(270) }

HeadingFixes == { Coord(DEFAULT_LOCATION.lat + n, DEFAULT_LOCATION.lng) : n \in 0..MaxNorth }

\* calculateBearing (utils/geo.ts lines 20-31) of two points of one meridian,
\* in whole degrees: y is 0 and x has the sign of end.lat - start.lat, so that
\* atan2(y, x) is 0 for a point to the north and for the same point, and pi
\* for a point to the south.
calculateBearing(start, end) ==
    IF end.lat >= start.lat THEN 0 ELSE 180

\* a || b of two numbers: b where a is 0 (or NaN).
OrElse(a, b) == IF a = 0 THEN b ELSE a

\* Lines 206-209 of handleSuccess: the heading of the fix.
FixHeading(device, previous, newLoc) ==
    IF device.kind = "null" \/ isNaN(device)
       THEN calculateBearing(previous, newLoc)
       ELSE device.val

\* handleSuccess (lines 191-255) as far as the heading goes: newLoc is the
\* smoothed position.
HeadingFix(device, newLoc) ==
    /\ hFixes < MaxFixes
    /\ hFixes' = hFixes + 1
    /\ hPrevious' = newLoc
    /\ hHeading' = IF hNavigating
                      THEN OrElse(FixHeading(device, hPrevious, newLoc), hHeading)
                      ELSE hHeading
    /\ UNCHANGED hNavigating
    /\ UNCHANGED exceptHeading

\* startRealNavigation (lines 322-336).
HeadingStartNavigation ==
    /\ ~hNavigating
    /\ hNavigating' = TRUE
    /\ UNCHANGED << hHeading, hPrevious, hFixes >>
    /\ UNCHANGED exceptHeading

\* abortNavigation (line 537).
HeadingAbort ==
    /\ hNavigating
    /\ hNavigating' = FALSE
    /\ UNCHANGED << hHeading, hPrevious, hFixes >>
    /\ UNCHANGED exceptHeading

NextHeading ==
    \/ \E device \in DeviceHeadings, newLoc \in HeadingFixes : HeadingFix(device, newLoc)
    \/ HeadingStartNavigation
    \/ HeadingAbort

SpecHeading == Init /\ [][NextHeading]_vars

\* ------------------------------------------------ heading: properties

\* C31: a fix handled while navigating in real mode sets navStatus.heading to
\* the device heading where that is a number, 0 included, and to
\* calculateBearing(previous location, current location) where the device
\* heading is absent or NaN.
C31_HeadingFromDeviceOrBearing ==
    [][ \A device \in DeviceHeadings, newLoc \in HeadingFixes :
            (HeadingFix(device, newLoc) /\ hNavigating)
            => hHeading' = IF device.kind = "num"
                              THEN device.val
                              ELSE calculateBearing(hPrevious, newLoc) ]_vars

\* ------------------------------------------------ overlapping evaluations (App.tsx)

\* Most calculateRoute calls of a run.
MaxEvaluations == 4

\* The end of a step that started the calls s.inFlight holds beyond those
\* numbered: each gets the next rank.
OverlapCommit(s, numbers, latest) ==
    LET new == Len(s.inFlight) - Len(numbers)
    IN  /\ oStarted + new <= MaxEvaluations
        /\ Len(s.inFlight) <= MaxInFlight
        /\ s.alertTimers <= MaxTimers
        /\ oState' = [s EXCEPT !.started = 0, !.settled = "none"]
        /\ oNumbers' = numbers \o [k \in 1..new |-> oStarted + k]
        /\ oStarted' = oStarted + new
        /\ oLatest' = IF new > 0 THEN NotSettled ELSE latest
        /\ UNCHANGED exceptOverlap

\* setDestination(coords), then the auto-calc effect (lines 313-318).
OverlapSetDestination(d) ==
    OverlapCommit(RunEffects([oState EXCEPT !.destination = << d >>], {"destination"}),
                  oNumbers, oLatest)

\* setFloodZones(prev => [...prev, zone]), then the auto-calc effect.
OverlapAddFloodZone(zone) ==
    /\ Len(oState.floodZones) < MaxZones
    /\ OverlapCommit(RunEffects([oState EXCEPT !.floodZones = AppendZone(@, zone)],
                                {"floodZones"}),
                     oNumbers, oLatest)

\* The call at position i of those in flight settles (lines 285-309).
OverlapSettles(i, routeData) ==
    /\ i \in DOMAIN oState.inFlight
    /\ LET call == oState.inFlight[i]
           s0 == [oState EXCEPT !.inFlight = RemoveAt(@, i)]
           routeReplaced == routeData.ok \/ oState.route.ok
       IN  OverlapCommit(RunEffects(Settle(s0, call, routeData),
                                    IF routeReplaced THEN {"route"} ELSE {}),
                         RemoveAt(oNumbers, i),
                         IF oNumbers[i] = oStarted
                            THEN [settled |-> TRUE, route |-> routeData,
                                  intersect |-> /\ routeData.ok
                                                /\ IsCompromised(routeData, call.zones)]
                            ELSE oLatest)

NextOverlap ==
    \/ OverlapSetDestination(Dest)
    \/ \E zone \in ManualZones : OverlapAddFloodZone(zone)
    \/ \E i \in 1..MaxInFlight, routeData \in RouteResults : OverlapSettles(i, routeData)

SpecOverlap == Init /\ [][NextOverlap]_vars

\* ------------------------------------------------ overlapping evaluations: properties

\* C32: once every evaluation has settled, the active route is the one the
\* evaluation started last settled with, and for a non-null route the blocked
\* flag is the one that evaluation computed.
C32_LastStartedWins ==
    (oState.inFlight = << >> /\ oLatest.settled)
        => /\ oState.route = oLatest.route
           /\ oLatest.route.ok => oState.isBlocked = oLatest.intersect

\* ------------------------------------------------ simulated playback (App.tsx)

\* Most coordinates of a route.
MaxLength == 3

\* The route of n coordinates, going east from the default location.
RouteOfLength(n) ==
    Route([i \in 1..n |-> Coord(DEFAULT_LOCATION.lat, DEFAULT_LOCATION.lng + i - 1)],
          1000 * n)

\* What fetchRoute resolves to: null or a route of 1 .. MaxLength coordinates.
PlaybackRoutes == { NullRoute } \cup { RouteOfLength(n) : n \in 1..MaxLength }

\* calculateRoute up to its await (lines 275-283): by the auto-calc effect, the
\* live monitor or the interval callback (lines 178, 316, 388).
PlaybackEvaluationStarts ==
    /\ kPending < MaxInFlight
    /\ kPending' = kPending + 1
    /\ UNCHANGED << kRoute, kTicker, kIndex, kLocation, kNavigating, kSummary >>
    /\ UNCHANGED exceptPlayback

\* setRoute(routeData) of calculateRoute (lines 285-286).
PlaybackEvaluationSettles(routeData) ==
    /\ kPending > 0
    /\ kPending' = kPending - 1
    /\ kRoute' = routeData
    /\ UNCHANGED << kTicker, kIndex, kLocation, kNavigating, kSummary >>
    /\ UNCHANGED exceptPlayback

\* startSimulation (lines 339-396), behind the start button of the START CARD.
PlaybackStart ==
    /\ ~kNavigating
    /\ ~kSummary
    /\ kRoute.ok
    /\ Len(kRoute.coordinates) # 0
    /\ kNavigating' = TRUE
    /\ kIndex' = 0
    /\ kTicker' = [active |-> TRUE, route |-> kRoute]
    /\ UNCHANGED << kRoute, kLocation, kSummary, kPending >>
    /\ UNCHANGED exceptPlayback

\* idx < coords.length - 1 (line 364).
PlaybackMovesPastEnd(idx, coords) == idx < Len(coords)

PlaybackMoves(idx, coords) == idx < Len(coords) - 1

\* The interval callback (lines 358-395): a move to coords[idx], or
\* completeNavigation (lines 398-409) with stopSimulation (lines 411-418).
PlaybackTick ==
    /\ kTicker.active
    /\ LET coords == kTicker.route.coordinates
           idx == kIndex
       IN  IF PlaybackMoves(idx, coords)
              THEN /\ kLocation' = coords[idx + 1]
                   /\ kIndex' = idx + 1
                   /\ UNCHANGED << kTicker, kNavigating, kSummary >>
              ELSE /\ kTicker' = NoPlayback
                   /\ kNavigating' = FALSE
                   /\ kSummary' = TRUE
                   /\ UNCHANGED << kLocation, kIndex >>
    /\ UNCHANGED << kRoute, kPending >>
    /\ UNCHANGED exceptPlayback

\* abortNavigation (line 537).
PlaybackAbort ==
    /\ kNavigating
    /\ kTicker' = NoPlayback
    /\ kNavigating' = FALSE
    /\ UNCHANGED << kRoute, kIndex, kLocation, kSummary, kPending >>
    /\ UNCHANGED exceptPlayback

\* The button of the trip summary (line 841).
PlaybackSummaryDone ==
    /\ kSummary
    /\ kSummary' = FALSE
    /\ kRoute' = NullRoute
    /\ UNCHANGED << kTicker, kIndex, kLocation, kNavigating, kPending >>
    /\ UNCHANGED exceptPlayback

NextPlayback ==
    \/ PlaybackEvaluationStarts
    \/ \E routeData \in PlaybackRoutes : PlaybackEvaluationSettles(routeData)
    \/ PlaybackStart
    \/ PlaybackTick
    \/ PlaybackAbort
    \/ PlaybackSummaryDone

\* The interval set at line 358 calls back every 200 ms until it is cleared.
SpecPlayback == Init /\ [][NextPlayback]_vars /\ WF_vars(PlaybackTick)

\* ------------------------------------------------ simulated playback: properties

\* C37: during a playback started on a route of n >= 1 coordinates the index
\* stays at or below n - 1; every tick raises it by exactly one or is the
\* arrival; the playback ends only by arrival or by an abort; and it does end,
\* whatever evaluations start or settle meanwhile.
C37_PlaybackAdvancesToArrival ==
    /\ [](kTicker.active => kIndex <= Len(kTicker.route.coordinates) - 1)
    /\ [][ PlaybackTick => \/ kIndex' = kIndex + 1 /\ kTicker' = kTicker
                           \/ kIndex' = kIndex /\ kSummary' /\ ~kTicker'.active ]_vars
    /\ [][ (kTicker.active /\ ~kTicker'.active) => (kSummary' \/ PlaybackAbort) ]_vars
    /\ (kTicker.active ~> ~kTicker.active)

\* A playback has arrived at the last of three coordinates while the active
\* route had been replaced and an evaluation was in flight.
C37_Witness ==
    /\ kSummary
    /\ ~kTicker.active
    /\ kIndex = 2
    /\ kLocation = RouteOfLength(3).coordinates[2]
    /\ kRoute # RouteOfLength(3)
    /\ kPending > 0

\* ------------------------------------------------ hazard spawner (App.tsx)

\* The period of the spawner's interval, 3000 ms, in ticks of 200 ms.
SpawnPeriod == 15

\* Most zones the spawner adds in a run.
MaxSpawned == 2

\* Most ticks of a simulated playback: more than a period of the spawner.
MaxPlayback == 16

\* The effect of lines 135-168 after a render in which isLiveMonitoring or
\* userLocation changed: the cleanup clears the interval, and a new one is set
\* if monitoring is enabled.
SpawnerEffect == wElapsed' = 0

\* The live monitor toggle (line 853).
SpawnerToggle ==
    /\ wMonitoring' = ~wMonitoring
    /\ wFired' = FALSE
    /\ SpawnerEffect
    /\ UNCHANGED << wSpawned, wPlayback >>
    /\ UNCHANGED exceptSpawner

\* 200 ms pass without a position update.
SpawnerTimePasses ==
    /\ wMonitoring
    /\ wPlayback = 0
    /\ wElapsed < SpawnPeriod
    /\ wElapsed' = wElapsed + 1
    /\ UNCHANGED << wMonitoring, wFired, wSpawned, wPlayback >>
    /\ UNCHANGED exceptSpawner

\* The interval callback (lines 137-163), 3000 ms after the interval was set;
\* spawns is the outcome of Math.random() > 0.8.  setFloodZones and
\* setNavStatus leave the dependencies of the effect as they are.
SpawnerTick(spawns) ==
    /\ wMonitoring
    /\ wElapsed = SpawnPeriod
    /\ spawns => wSpawned < MaxSpawned
    /\ wElapsed' = 0
    /\ wFired' = TRUE
    /\ wSpawned' = IF spawns THEN wSpawned + 1 ELSE wSpawned
    /\ UNCHANGED << wMonitoring, wPlayback >>
    /\ UNCHANGED exceptSpawner

\* handleSuccess (line 223): setUserLocation(newLoc) with a new object.
SpawnerPositionFix ==
    /\ wPlayback = 0
    /\ SpawnerEffect
    /\ UNCHANGED << wMonitoring, wFired, wSpawned, wPlayback >>
    /\ UNCHANGED exceptSpawner

\* startSimulation (lines 339-396) on a route of ticks + 1 coordinates.
SpawnerStartPlayback(ticks) ==
    /\ wPlayback = 0
    /\ wPlayback' = ticks
    /\ UNCHANGED << wMonitoring, wElapsed, wFired, wSpawned >>
    /\ UNCHANGED exceptSpawner

\* The playback's interval callback, every 200 ms (lines 358-373):
\* setUserLocation(currentPos).
SpawnerPlaybackTick ==
    /\ wPlayback > 0
    /\ wPlayback' = wPlayback - 1
    /\ SpawnerEffect
    /\ UNCHANGED << wMonitoring, wFired, wSpawned >>
    /\ UNCHANGED exceptSpawner

NextSpawner ==
    \/ SpawnerToggle
    \/ SpawnerTimePasses
    \/ \E spawns \in BOOLEAN : SpawnerTick(spawns)
    \/ SpawnerPositionFix
    \/ \E ticks \in {1, MaxPlayback} : SpawnerStartPlayback(ticks)
    \/ SpawnerPlaybackTick

\* Time passes, and the two intervals call back when they are due.
SpecSpawner ==
    /\ Init
    /\ [][NextSpawner]_vars
    /\ WF_vars(SpawnerTimePasses)
    /\ WF_vars(SpawnerTick(FALSE))
    /\ WF_vars(SpawnerPlaybackTick)

\* ------------------------------------------------ hazard spawner: properties

\* C38: once live monitoring is enabled the spawner's interval callback runs,
\* unless monitoring is disabled first, however often the user location
\* changes.
C38_SpawnerEventuallyFires ==
    wMonitoring ~> (wFired \/ ~wMonitoring)

====
